---- MODULE Spec2Model ----
(***************************************************************************)
(* Sets represented as sorted, singly-linked lists                         *)
(* (src/05-ownership/src/list_set.rs).                                     *)
(*                                                                         *)
(* A chain of owned nodes is a sequence of elements read head-to-tail.     *)
(* A Link is a slot of the chain: slot p (0 <= p <= Len(head)) is the      *)
(* Link that follows p nodes, so slot 0 is Set::head and slot p > 0 is     *)
(* the `link` field of node p.  The Link at slot p owns node p+1 when      *)
(* p < Len(head) and is empty when p = Len(head).                          *)
(*                                                                         *)
(* An element is a key, which decides <T as Ord>, and a tag, which Ord     *)
(* does not look at: two elements with the same key compare Equal and are  *)
(* still told apart, as the elements of an arbitrary T: Ord are.           *)
(*                                                                         *)
(* Option<T> is a sequence of length at most one.                          *)
(***************************************************************************)
EXTENDS Integers, Sequences, FiniteSets, TLC

\* Keys are 1..MaxKey.
MaxKey == 3
\* Longest vector handed to from_iter.
MaxVec == 3
\* Longest vector handed to extend.
MaxExtend == 2
\* Calls of next() made on an iterator after it has returned None.
MaxIdleNext == 1

Keys == 1..MaxKey
\* Two copies that compare Equal are enough to tell the element a Set stores
\* from the one a call passes in.
Tags == {0, 1}
Elem == [key : Keys, tag : Tags]

None == <<>>
Some(x) == <<x>>

VecsUpTo(n) == UNION {[1..k -> Elem] : k \in 0..n}
Vecs == VecsUpTo(MaxVec)
ExtendVecs == VecsUpTo(MaxExtend)

\* <T as Ord>::cmp
Cmp(a, b) ==
  IF a.key < b.key THEN "Less"
  ELSE IF a.key = b.key THEN "Equal"
  ELSE "Greater"

\* The sequence without its i-th entry.
RemoveAt(seq, i) == SubSeq(seq, 1, i - 1) \o SubSeq(seq, i + 1, Len(seq))
\* The sequence with x spliced in before its i-th entry.
InsertAt(seq, i, x) == SubSeq(seq, 1, i - 1) \o <<x>> \o SubSeq(seq, i, Len(seq))

(***************************************************************************)
(* Set                                                                     *)
(***************************************************************************)
SetNew == [head |-> <<>>, len |-> 0]

SetIsEmpty(set) == set.len = 0

SetLen(set) == set.len

(***************************************************************************)
(* CursorMut: the Set it borrows (head, len), the Link it points at        *)
(* (link: None, or Some(slot)), and whether it has panicked.               *)
(***************************************************************************)
CursorNew(set) ==
  [head |-> set.head, len |-> set.len, link |-> Some(0), panic |-> FALSE]

\* The Set a cursor borrows, as the cursor leaves it.
CursorSet(cur) == [head |-> cur.head, len |-> cur.len]

CursorData(cur) ==
  IF cur.link = None THEN None
  ELSE IF cur.link[1] < Len(cur.head) THEN Some(cur.head[cur.link[1] + 1])
  ELSE None

CursorDataMut(cur) ==
  IF cur.link = None THEN None
  ELSE IF cur.link[1] < Len(cur.head) THEN Some(cur.head[cur.link[1] + 1])
  ELSE None

\* Faulty CursorMut::advance: at the end of the chain the cursor stays at
\* the empty Link.
CursorAdvanceStaysAtEnd(cur) ==
  [cur EXCEPT !.link =
     IF cur.link = None THEN None
     ELSE IF cur.link[1] < Len(cur.head) THEN Some(cur.link[1] + 1)
     ELSE cur.link]

CursorAdvance(cur) ==
  [cur EXCEPT !.link =
     IF cur.link = None THEN None
     ELSE IF cur.link[1] < Len(cur.head) THEN Some(cur.link[1] + 1)
     ELSE None]

\* Faulty CursorMut::remove: the length is left as it was.
CursorRemoveStaleLen(cur) ==
  IF cur.link = None THEN [cur |-> cur, ret |-> None]
  ELSE IF cur.link[1] >= Len(cur.head) THEN [cur |-> cur, ret |-> None]
  ELSE [cur |-> [cur EXCEPT !.head = RemoveAt(cur.head, cur.link[1] + 1)],
        ret |-> Some(cur.head[cur.link[1] + 1])]

\* Faulty CursorMut::remove: the successor taken out of the node is not put
\* back into the Link, so the rest of the chain is lost.
CursorRemoveDropsTail(cur) ==
  IF cur.link = None THEN [cur |-> cur, ret |-> None]
  ELSE IF cur.link[1] >= Len(cur.head) THEN [cur |-> cur, ret |-> None]
  ELSE [cur |-> [cur EXCEPT !.head = SubSeq(cur.head, 1, cur.link[1]),
                            !.len = cur.len - 1],
        ret |-> Some(cur.head[cur.link[1] + 1])]

\* [cur, ret]: the cursor afterwards and the Option returned.
CursorRemove(cur) ==
  IF cur.link = None THEN [cur |-> cur, ret |-> None]
  ELSE IF cur.link[1] >= Len(cur.head) THEN [cur |-> cur, ret |-> None]
  ELSE [cur |-> [cur EXCEPT !.head = RemoveAt(cur.head, cur.link[1] + 1),
                            !.len = cur.len - 1],
        ret |-> Some(cur.head[cur.link[1] + 1])]

\* Faulty CursorMut::insert: the new node goes to the end of the chain.
CursorInsertAtEnd(cur, data) ==
  IF cur.link = None THEN [cur EXCEPT !.panic = TRUE]
  ELSE [cur EXCEPT !.head = Append(cur.head, data), !.len = cur.len + 1]

CursorInsert(cur, data) ==
  IF cur.link = None THEN [cur EXCEPT !.panic = TRUE]
  ELSE [cur EXCEPT !.head = InsertAt(cur.head, cur.link[1] + 1, data),
                   !.len = cur.len + 1]

\* Faulty mem::replace: the old value is read and the new one never stored.
MemReplaceNoStore(cur, element) ==
  [cur |-> cur, old |-> cur.head[cur.link[1] + 1]]

\* mem::replace(data, element) through the reference data_mut returned.
MemReplace(cur, element) ==
  [cur |-> [cur EXCEPT !.head[cur.link[1] + 1] = element],
   old |-> cur.head[cur.link[1] + 1]]

(***************************************************************************)
(* Set core operations.  Each returns [set, ret, panic].                   *)
(***************************************************************************)
\* Faulty contains: the comparison is taken the other way round.
RECURSIVE ContainsLoopReversed(_, _, _)
ContainsLoopReversed(head, current, element) ==
  IF current >= Len(head) THEN FALSE
  ELSE LET ord == Cmp(head[current + 1], element) IN
       IF ord = "Less" THEN FALSE
       ELSE IF ord = "Equal" THEN TRUE
       ELSE ContainsLoopReversed(head, current + 1, element)

RECURSIVE ContainsLoop(_, _, _)
ContainsLoop(head, current, element) ==
  IF current >= Len(head) THEN FALSE
  ELSE LET ord == Cmp(element, head[current + 1]) IN
       IF ord = "Less" THEN FALSE
       ELSE IF ord = "Equal" THEN TRUE
       ELSE ContainsLoop(head, current + 1, element)

SetContains(set, element) == ContainsLoop(set.head, 0, element)

\* Faulty insert loop: Equal breaks out of the loop as Less does.
RECURSIVE InsertLoopNoEqual(_, _)
InsertLoopNoEqual(cur, element) ==
  LET data == CursorData(cur) IN
  IF data = None THEN [cur |-> cur, returned |-> FALSE]
  ELSE LET ord == Cmp(element, data[1]) IN
       IF ord = "Less" \/ ord = "Equal" THEN [cur |-> cur, returned |-> FALSE]
       ELSE InsertLoopNoEqual(CursorAdvance(cur), element)

\* Faulty loop of insert: at the end of the chain the cursor is advanced
\* once more before the loop is left.
RECURSIVE InsertLoopRunsOff(_, _)
InsertLoopRunsOff(cur, element) ==
  LET data == CursorData(cur) IN
  IF data = None THEN [cur |-> CursorAdvance(cur), returned |-> FALSE]
  ELSE LET ord == Cmp(element, data[1]) IN
       IF ord = "Less" THEN [cur |-> cur, returned |-> FALSE]
       ELSE IF ord = "Equal" THEN [cur |-> cur, returned |-> TRUE]
       ELSE InsertLoopRunsOff(CursorAdvance(cur), element)

\* The while loop of insert: [cur, returned], returned when it hit Equal.
RECURSIVE InsertLoop(_, _)
InsertLoop(cur, element) ==
  LET data == CursorData(cur) IN
  IF data = None THEN [cur |-> cur, returned |-> FALSE]
  ELSE LET ord == Cmp(element, data[1]) IN
       IF ord = "Less" THEN [cur |-> cur, returned |-> FALSE]
       ELSE IF ord = "Equal" THEN [cur |-> cur, returned |-> TRUE]
       ELSE InsertLoop(CursorAdvance(cur), element)

\* Faulty insert: on Equal the stored element is overwritten.
SetInsertOverwrites(set, element) ==
  LET l == InsertLoop(CursorNew(set), element) IN
  IF l.returned
  THEN [set |-> CursorSet(MemReplace(l.cur, element).cur), ret |-> FALSE,
        panic |-> FALSE]
  ELSE LET c == CursorInsert(l.cur, element) IN
       [set |-> CursorSet(c), ret |-> TRUE, panic |-> c.panic]

SetInsert(set, element) ==
  LET l == InsertLoop(CursorNew(set), element) IN
  IF l.returned
  THEN [set |-> CursorSet(l.cur), ret |-> FALSE, panic |-> FALSE]
  ELSE LET c == CursorInsert(l.cur, element) IN
       [set |-> CursorSet(c), ret |-> TRUE, panic |-> c.panic]

\* The while loop of replace: [cur, returned, old].
RECURSIVE ReplaceLoop(_, _)
ReplaceLoop(cur, element) ==
  LET data == CursorDataMut(cur) IN
  IF data = None THEN [cur |-> cur, returned |-> FALSE, old |-> None]
  ELSE LET ord == Cmp(element, data[1]) IN
       IF ord = "Less" THEN [cur |-> cur, returned |-> FALSE, old |-> None]
       ELSE IF ord = "Equal"
       THEN LET r == MemReplace(cur, element) IN
            [cur |-> r.cur, returned |-> TRUE, old |-> Some(r.old)]
       ELSE ReplaceLoop(CursorAdvance(cur), element)

SetReplace(set, element) ==
  LET l == ReplaceLoop(CursorNew(set), element) IN
  IF l.returned
  THEN [set |-> CursorSet(l.cur), ret |-> l.old, panic |-> FALSE]
  ELSE LET c == CursorInsert(l.cur, element) IN
       [set |-> CursorSet(c), ret |-> None, panic |-> c.panic]

\* Faulty remove loop: on Equal the cursor advances before it removes.
RECURSIVE RemoveLoopSkips(_, _)
RemoveLoopSkips(cur, element) ==
  LET data == CursorData(cur) IN
  IF data = None THEN [cur |-> cur, ret |-> None]
  ELSE LET ord == Cmp(element, data[1]) IN
       IF ord = "Less" THEN [cur |-> cur, ret |-> None]
       ELSE IF ord = "Equal" THEN CursorRemove(CursorAdvance(cur))
       ELSE RemoveLoopSkips(CursorAdvance(cur), element)

\* The while loop of remove: [cur, ret].
RECURSIVE RemoveLoop(_, _)
RemoveLoop(cur, element) ==
  LET data == CursorData(cur) IN
  IF data = None THEN [cur |-> cur, ret |-> None]
  ELSE LET ord == Cmp(element, data[1]) IN
       IF ord = "Less" THEN [cur |-> cur, ret |-> None]
       ELSE IF ord = "Equal" THEN CursorRemove(cur)
       ELSE RemoveLoop(CursorAdvance(cur), element)

SetRemove(set, element) ==
  LET l == RemoveLoop(CursorNew(set), element) IN
  [set |-> CursorSet(l.cur), ret |-> l.ret, panic |-> FALSE]

\* Extend::extend: insert every element the iterator yields, in order.
\* [set, panic].
RECURSIVE SetExtend(_, _)
SetExtend(set, iter) ==
  IF iter = <<>> THEN [set |-> set, panic |-> FALSE]
  ELSE LET r == SetInsert(set, Head(iter)) IN
       IF r.panic THEN [set |-> r.set, panic |-> TRUE]
       ELSE SetExtend(r.set, Tail(iter))

SetFromIter(iter) == SetExtend(SetNew, iter)

(***************************************************************************)
(* Iter, the borrowing iterator: the chain it borrows, the Link it points  *)
(* at (a slot) and its remaining count.                                    *)
(***************************************************************************)
\* IntoIterator for &Set
IterNew(set) == [chain |-> set.head, link |-> 0, len |-> set.len]

\* Faulty Iter::next: the remaining count is not decremented.
IterNextStaleLen(it) ==
  IF it.link < Len(it.chain)
  THEN [it |-> [it EXCEPT !.link = it.link + 1],
        ret |-> Some(it.chain[it.link + 1])]
  ELSE [it |-> it, ret |-> None]

\* [it, ret]
IterNext(it) ==
  IF it.link < Len(it.chain)
  THEN [it |-> [it EXCEPT !.link = it.link + 1, !.len = it.len - 1],
        ret |-> Some(it.chain[it.link + 1])]
  ELSE [it |-> it, ret |-> None]

\* Iter::size_hint and ExactSizeIterator::len
IterSizeHint(it) == <<it.len, Some(it.len)>>

IterLen(it) == it.len

\* Peekable::peek on an Iter: the item next() would return, not consumed.
Peek(it) == IterNext(it).ret

\* What a `for` loop over the iterator sees, in order.
RECURSIVE IterCollect(_)
IterCollect(it) ==
  LET n == IterNext(it) IN
  IF n.ret = None THEN <<>> ELSE <<n.ret[1]>> \o IterCollect(n.it)

(***************************************************************************)
(* Ord, PartialEq and Clone for Set                                        *)
(***************************************************************************)
\* Faulty loop of cmp: the side that runs out first counts as the greater.
RECURSIVE CmpLoopPrefixGreater(_, _)
CmpLoopPrefixGreater(i, j) ==
  LET a == IterNext(i)
      b == IterNext(j) IN
  IF a.ret = None /\ b.ret = None THEN "Equal"
  ELSE IF a.ret = None THEN "Greater"
  ELSE IF b.ret = None THEN "Less"
  ELSE LET ord == Cmp(a.ret[1], b.ret[1]) IN
       IF ord = "Less" THEN "Less"
       ELSE IF ord = "Greater" THEN "Greater"
       ELSE CmpLoopPrefixGreater(a.it, b.it)

RECURSIVE CmpLoop(_, _)
CmpLoop(i, j) ==
  LET a == IterNext(i)
      b == IterNext(j) IN
  IF a.ret = None /\ b.ret = None THEN "Equal"
  ELSE IF a.ret = None THEN "Less"
  ELSE IF b.ret = None THEN "Greater"
  ELSE LET ord == Cmp(a.ret[1], b.ret[1]) IN
       IF ord = "Less" THEN "Less"
       ELSE IF ord = "Greater" THEN "Greater"
       ELSE CmpLoop(a.it, b.it)

SetCmp(self, other) == CmpLoop(IterNew(self), IterNew(other))

SetPartialCmp(self, other) == Some(SetCmp(self, other))

\* Faulty eq: only the lengths are compared.
SetEqByLen(self, other) == self.len = other.len

SetEq(self, other) == SetCmp(self, other) = "Equal"

\* The for loop of clone: the chain built behind `cur` so far.
RECURSIVE CloneLoop(_, _)
CloneLoop(built, it) ==
  LET n == IterNext(it) IN
  IF n.ret = None THEN built
  ELSE CloneLoop(built \o <<n.ret[1]>>, n.it)

SetClone(self) ==
  [head |-> CloneLoop(<<>>, IterNew(self)), len |-> self.len]

(***************************************************************************)
(* is_disjoint, is_subset, is_superset.  `i` and `j` are the Links the two *)
(* references point at, as slots of self.head and other.head.              *)
(***************************************************************************)
\* Faulty is_disjoint loop: on Greater it is `i` that moves on.
RECURSIVE IsDisjointLoopWrongSide(_, _, _, _)
IsDisjointLoopWrongSide(self, i, other, j) ==
  IF i >= Len(self.head) \/ j >= Len(other.head) THEN TRUE
  ELSE LET ord == Cmp(self.head[i + 1], other.head[j + 1]) IN
       IF ord = "Less" THEN IsDisjointLoopWrongSide(self, i + 1, other, j)
       ELSE IF ord = "Greater"
       THEN IsDisjointLoopWrongSide(self, i + 1, other, j)
       ELSE FALSE

\* The while loop of is_disjoint, and the `true` after it.
RECURSIVE IsDisjointLoop(_, _, _, _)
IsDisjointLoop(self, i, other, j) ==
  IF i >= Len(self.head) \/ j >= Len(other.head) THEN TRUE
  ELSE LET ord == Cmp(self.head[i + 1], other.head[j + 1]) IN
       IF ord = "Less" THEN IsDisjointLoop(self, i + 1, other, j)
       ELSE IF ord = "Greater" THEN IsDisjointLoop(self, i, other, j + 1)
       ELSE FALSE

SetIsDisjoint(self, other) == IsDisjointLoop(self, 0, other, 0)

\* The while loop of is_subset: [returned, i, j], returned when it hit Less.
RECURSIVE IsSubsetLoop(_, _, _, _)
IsSubsetLoop(self, i, other, j) ==
  IF i >= Len(self.head) \/ j >= Len(other.head)
  THEN [returned |-> FALSE, i |-> i, j |-> j]
  ELSE LET ord == Cmp(self.head[i + 1], other.head[j + 1]) IN
       IF ord = "Less" THEN [returned |-> TRUE, i |-> i, j |-> j]
       ELSE IF ord = "Greater" THEN IsSubsetLoop(self, i, other, j + 1)
       ELSE IsSubsetLoop(self, i + 1, other, j + 1)

\* Faulty is_subset: the loop's exit is answered with
\* i.is_none() || j.is_none().
SetIsSubsetExitEither(self, other) ==
  LET l == IsSubsetLoop(self, 0, other, 0) IN
  IF l.returned THEN FALSE
  ELSE l.i >= Len(self.head) \/ l.j >= Len(other.head)

SetIsSubset(self, other) ==
  LET l == IsSubsetLoop(self, 0, other, 0) IN
  IF l.returned THEN FALSE
  ELSE l.i >= Len(self.head) \/ l.j < Len(other.head)

SetIsSuperset(self, other) == SetIsSubset(other, self)

(***************************************************************************)
(* Set algebra.  Each returns [set, panic]: the result Set, and whether    *)
(* the cursor over it panicked.                                            *)
(***************************************************************************)
\* The result Set, once the block that borrows it through `cur` ends.
Result(cur) == [set |-> CursorSet(cur), panic |-> cur.panic]

\* Faulty emission: the cursor is not advanced past the node it inserted.
EmitNoAdvance(cur, x) == CursorInsert(cur, x)

\* cur.insert(x.clone()); cur.advance();
Emit(cur, x) == CursorAdvance(CursorInsert(cur, x))

\* for a in i { cur.insert(a.clone()); cur.advance(); }
RECURSIVE EmitRest(_, _)
EmitRest(cur, it) ==
  LET n == IterNext(it) IN
  IF n.ret = None THEN cur
  ELSE EmitRest(Emit(cur, n.ret[1]), n.it)

\* Faulty intersection loop: the smaller head is emitted, as union does.
RECURSIVE IntersectionLoopEmitsLess(_, _, _)
IntersectionLoopEmitsLess(cur, i, j) ==
  LET a == Peek(i)
      b == Peek(j) IN
  IF a = None \/ b = None THEN cur
  ELSE LET ord == Cmp(a[1], b[1]) IN
       IF ord = "Less"
       THEN IntersectionLoopEmitsLess(Emit(cur, a[1]), IterNext(i).it, j)
       ELSE IF ord = "Greater"
       THEN IntersectionLoopEmitsLess(cur, i, IterNext(j).it)
       ELSE IntersectionLoopEmitsLess(Emit(cur, a[1]), IterNext(i).it,
                                      IterNext(j).it)

RECURSIVE IntersectionLoop(_, _, _)
IntersectionLoop(cur, i, j) ==
  LET a == Peek(i)
      b == Peek(j) IN
  IF a = None \/ b = None THEN cur
  ELSE LET ord == Cmp(a[1], b[1]) IN
       IF ord = "Less" THEN IntersectionLoop(cur, IterNext(i).it, j)
       ELSE IF ord = "Greater" THEN IntersectionLoop(cur, i, IterNext(j).it)
       ELSE IntersectionLoop(Emit(cur, a[1]), IterNext(i).it, IterNext(j).it)

SetIntersection(self, other) ==
  Result(IntersectionLoop(CursorNew(SetNew), IterNew(self), IterNew(other)))

\* Faulty union loop: on Equal only `i` advances.
RECURSIVE UnionLoopEqualTwice(_, _, _)
UnionLoopEqualTwice(cur, i, j) ==
  LET a == Peek(i)
      b == Peek(j) IN
  IF a = None \/ b = None THEN [cur |-> cur, i |-> i, j |-> j]
  ELSE LET ord == Cmp(a[1], b[1]) IN
       IF ord = "Less" THEN UnionLoopEqualTwice(Emit(cur, a[1]), IterNext(i).it, j)
       ELSE IF ord = "Greater"
       THEN UnionLoopEqualTwice(Emit(cur, b[1]), i, IterNext(j).it)
       ELSE UnionLoopEqualTwice(Emit(cur, a[1]), IterNext(i).it, j)

\* The while loop of union: [cur, i, j] when one side has run out.
RECURSIVE UnionLoop(_, _, _)
UnionLoop(cur, i, j) ==
  LET a == Peek(i)
      b == Peek(j) IN
  IF a = None \/ b = None THEN [cur |-> cur, i |-> i, j |-> j]
  ELSE LET ord == Cmp(a[1], b[1]) IN
       IF ord = "Less" THEN UnionLoop(Emit(cur, a[1]), IterNext(i).it, j)
       ELSE IF ord = "Greater" THEN UnionLoop(Emit(cur, b[1]), i, IterNext(j).it)
       ELSE UnionLoop(Emit(cur, a[1]), IterNext(i).it, IterNext(j).it)

SetUnion(self, other) ==
  LET l == UnionLoop(CursorNew(SetNew), IterNew(self), IterNew(other)) IN
  Result(EmitRest(EmitRest(l.cur, l.i), l.j))

RECURSIVE DifferenceLoop(_, _, _)
DifferenceLoop(cur, i, j) ==
  LET a == Peek(i)
      b == Peek(j) IN
  IF a = None \/ b = None THEN [cur |-> cur, i |-> i, j |-> j]
  ELSE LET ord == Cmp(a[1], b[1]) IN
       IF ord = "Less" THEN DifferenceLoop(Emit(cur, a[1]), IterNext(i).it, j)
       ELSE IF ord = "Greater" THEN DifferenceLoop(cur, i, IterNext(j).it)
       ELSE DifferenceLoop(cur, IterNext(i).it, IterNext(j).it)

\* Faulty difference: what is left of `self` once `other` runs out is not
\* emitted.
SetDifferenceNoRest(self, other) ==
  LET l == DifferenceLoop(CursorNew(SetNew), IterNew(self), IterNew(other)) IN
  Result(l.cur)

SetDifference(self, other) ==
  LET l == DifferenceLoop(CursorNew(SetNew), IterNew(self), IterNew(other)) IN
  Result(EmitRest(l.cur, l.i))

\* Faulty symmetric-difference loop: on Equal the element is emitted.
RECURSIVE SymmetricDifferenceLoopEmitsEqual(_, _, _)
SymmetricDifferenceLoopEmitsEqual(cur, i, j) ==
  LET a == Peek(i)
      b == Peek(j) IN
  IF a = None \/ b = None THEN [cur |-> cur, i |-> i, j |-> j]
  ELSE LET ord == Cmp(a[1], b[1]) IN
       IF ord = "Less"
       THEN SymmetricDifferenceLoopEmitsEqual(Emit(cur, a[1]), IterNext(i).it, j)
       ELSE IF ord = "Greater"
       THEN SymmetricDifferenceLoopEmitsEqual(Emit(cur, b[1]), i, IterNext(j).it)
       ELSE SymmetricDifferenceLoopEmitsEqual(Emit(cur, a[1]), IterNext(i).it,
                                              IterNext(j).it)

RECURSIVE SymmetricDifferenceLoop(_, _, _)
SymmetricDifferenceLoop(cur, i, j) ==
  LET a == Peek(i)
      b == Peek(j) IN
  IF a = None \/ b = None THEN [cur |-> cur, i |-> i, j |-> j]
  ELSE LET ord == Cmp(a[1], b[1]) IN
       IF ord = "Less"
       THEN SymmetricDifferenceLoop(Emit(cur, a[1]), IterNext(i).it, j)
       ELSE IF ord = "Greater"
       THEN SymmetricDifferenceLoop(Emit(cur, b[1]), i, IterNext(j).it)
       ELSE SymmetricDifferenceLoop(cur, IterNext(i).it, IterNext(j).it)

SetSymmetricDifference(self, other) ==
  LET l == SymmetricDifferenceLoop(CursorNew(SetNew), IterNew(self),
                                   IterNew(other)) IN
  Result(EmitRest(EmitRest(l.cur, l.i), l.j))

(***************************************************************************)
(* IntoIter, the consuming iterator, and Drop for Set                      *)
(***************************************************************************)
\* Faulty IntoIter::next: the cursor advances before it removes.
IntoIterNextOnSkipsHead(set) ==
  LET r == CursorRemove(CursorAdvance(CursorNew(set))) IN
  [set |-> CursorSet(r.cur), ret |-> r.ret]

\* IntoIter::next on the Set the iterator wraps: [set, ret].
IntoIterNextOn(set) ==
  LET r == CursorRemove(CursorNew(set)) IN
  [set |-> CursorSet(r.cur), ret |-> r.ret]

\* IntoIter::size_hint and ExactSizeIterator::len, on the wrapped Set
IntoIterSizeHint(set) == <<set.len, Some(set.len)>>

IntoIterLen(set) == set.len

\* The while loop of Set::drop: the number of nodes it detaches, one each
\* iteration, before `head` is empty.
RECURSIVE DropLoop(_, _)
DropLoop(head, n) ==
  IF head = <<>> THEN n ELSE DropLoop(Tail(head), n + 1)

SetDrop(set) == DropLoop(set.head, 0)

(***************************************************************************)
(* DrainFilter: the cursor's Link, the predicate (the set of keys it       *)
(* holds of), the remaining count, and the elements the predicate has      *)
(* been asked about.                                                       *)
(***************************************************************************)
Preds == SUBSET Keys

DrainCursor(s, df) ==
  [head |-> s.head, len |-> s.len, link |-> df.link, panic |-> FALSE]

\* Faulty DrainFilter::next loop: the cursor advances after a removal too,
\* past the node that slid into the Link.
RECURSIVE DrainLoopAdvancesAfterRemove(_, _, _, _)
DrainLoopAdvancesAfterRemove(cur, pred, len, asked) ==
  LET data == CursorData(cur) IN
  IF data = None THEN [cur |-> cur, len |-> len, asked |-> asked, ret |-> None]
  ELSE IF data[1].key \in pred
       THEN LET r == CursorRemove(cur) IN
            [cur |-> CursorAdvance(r.cur), len |-> len - 1,
             asked |-> Append(asked, data[1]), ret |-> r.ret]
       ELSE DrainLoopAdvancesAfterRemove(CursorAdvance(cur), pred, len - 1,
                                         Append(asked, data[1]))

\* The while loop of DrainFilter::next: [cur, len, asked, ret].
RECURSIVE DrainLoop(_, _, _, _)
DrainLoop(cur, pred, len, asked) ==
  LET data == CursorData(cur) IN
  IF data = None THEN [cur |-> cur, len |-> len, asked |-> asked, ret |-> None]
  ELSE IF data[1].key \in pred
       THEN LET r == CursorRemove(cur) IN
            [cur |-> r.cur, len |-> len - 1,
             asked |-> Append(asked, data[1]), ret |-> r.ret]
       ELSE DrainLoop(CursorAdvance(cur), pred, len - 1, Append(asked, data[1]))

\* DrainFilter::next: [set, df, ret].
DrainFilterNext(s, df) ==
  LET l == DrainLoop(DrainCursor(s, df), df.pred, df.len, df.asked) IN
  [set |-> CursorSet(l.cur),
   df |-> [df EXCEPT !.link = l.cur.link, !.len = l.len, !.asked = l.asked],
   ret |-> l.ret]

\* Faulty Drop for DrainFilter: nothing is run on drop.
DrainFilterDropNothing(s, df) == [set |-> s, df |-> df]

\* Drop for DrainFilter: for _ in self {}
RECURSIVE DrainFilterDrop(_, _)
DrainFilterDrop(s, df) ==
  LET n == DrainFilterNext(s, df) IN
  IF n.ret = None THEN [set |-> n.set, df |-> n.df]
  ELSE DrainFilterDrop(n.set, n.df)

(***************************************************************************)
(* The program: one Set, the caller's position, and the last call with     *)
(* its argument, its result and the Set as it was before the call.         *)
(***************************************************************************)
VARIABLES set, pc, last, iter, panicked

listVars == <<set, pc, last, iter, panicked>>

(***************************************************************************)
(* The heap of Boxes: the nodes allocated, by address, and the two Sets of *)
(* test_clone that own chains of them.  hlast is the last operation, the   *)
(* Set it ran on, and the other Set as it was before.                      *)
(***************************************************************************)
VARIABLES heap, set1, set2, hlast, hdrop

heapVars == <<heap, set1, set2, hlast, hdrop>>

(***************************************************************************)
(* The binary search tree map: the tree, for each key the most recent      *)
(* insert (and write through find_mut), and the last call.                 *)
(***************************************************************************)
VARIABLES bst, recent, blast

bstVars == <<bst, recent, blast>>

(***************************************************************************)
(* A CursorMut on its own, and the last method called on it.               *)
(***************************************************************************)
VARIABLES cursor, clast

cursorVars == <<cursor, clast>>

(***************************************************************************)
(* A Vec, the VecIntoIter made from it, and the last call.                 *)
(***************************************************************************)
VARIABLES vector, viter, vlast

vecVars == <<vector, viter, vlast>>

vars == <<listVars, heapVars, bstVars, cursorVars, vecVars>>

\* What the Set's caller, the heap's program, the map's caller, the
\* cursor's driver and the Vec's caller each leave alone.
offList == <<heapVars, bstVars, cursorVars, vecVars>>
offHeap == <<listVars, bstVars, cursorVars, vecVars>>
offBst == <<listVars, heapVars, cursorVars, vecVars>>
offCursor == <<listVars, heapVars, bstVars, vecVars>>
offVec == <<listVars, heapVars, bstVars, cursorVars>>

NoCall == [op |-> "none", arg |-> None, ret |-> None, pre |-> SetNew]
NoIter == [kind |-> "none"]

NoHeapCall == [op |-> "none", side |-> 0, other |-> None, nth |-> 0]
NoDrop == [side |-> 0]

\* The heap while only the Set's caller runs: nothing allocated.
HeapIdle ==
  /\ heap = <<>>
  /\ set1 = None
  /\ set2 = None
  /\ hlast = NoHeapCall
  /\ hdrop = NoDrop

\* The map while another program runs.
BstIdle ==
  /\ bst = None
  /\ recent = <<>>
  /\ blast = NoCall

\* The Vec while another program runs.
VecIdle ==
  /\ vector = None
  /\ viter = None
  /\ vlast = NoCall

\* The cursor while another program runs.
CursorIdle ==
  /\ cursor = None
  /\ clast = NoCall

\* The Set's caller while only the heap's program runs.
ListIdle ==
  /\ set = SetNew
  /\ pc = "idle"
  /\ last = NoCall
  /\ iter = NoIter
  /\ panicked = FALSE

\* The Sets a caller can hold as the second operand of a binary operation:
\* every Set that from_iter builds from a vector given in ascending order.
Ascending(vec) == \A i \in 1..(Len(vec) - 1) : vec[i].key < vec[i + 1].key
Sets == {SetFromIter(vec).set : vec \in {v \in Vecs : Ascending(v)}}

Init ==
  \E vec \in Vecs :
    LET r == SetFromIter(vec) IN
    /\ set = r.set
    /\ pc = "returned"
    /\ last = [op |-> "from_iter", arg |-> vec, ret |-> None, pre |-> SetNew]
    /\ iter = NoIter
    /\ panicked = r.panic
    /\ HeapIdle
    /\ BstIdle
    /\ CursorIdle
    /\ VecIdle

Contains ==
  /\ pc = "idle" /\ ~panicked
  /\ \E element \in Elem :
       last' = [op |-> "contains", arg |-> element,
                ret |-> SetContains(set, element), pre |-> set]
  /\ pc' = "returned"
  /\ UNCHANGED <<set, iter, panicked>>
  /\ UNCHANGED offList

Insert ==
  /\ pc = "idle" /\ ~panicked
  /\ \E element \in Elem :
       LET r == SetInsert(set, element) IN
       /\ set' = r.set
       /\ last' = [op |-> "insert", arg |-> element, ret |-> r.ret, pre |-> set]
       /\ panicked' = r.panic
  /\ pc' = "returned"
  /\ UNCHANGED iter
  /\ UNCHANGED offList

Replace ==
  /\ pc = "idle" /\ ~panicked
  /\ \E element \in Elem :
       LET r == SetReplace(set, element) IN
       /\ set' = r.set
       /\ last' = [op |-> "replace", arg |-> element, ret |-> r.ret, pre |-> set]
       /\ panicked' = r.panic
  /\ pc' = "returned"
  /\ UNCHANGED iter
  /\ UNCHANGED offList

Remove ==
  /\ pc = "idle" /\ ~panicked
  /\ \E element \in Elem :
       LET r == SetRemove(set, element) IN
       /\ set' = r.set
       /\ last' = [op |-> "remove", arg |-> element, ret |-> r.ret, pre |-> set]
       /\ panicked' = r.panic
  /\ pc' = "returned"
  /\ UNCHANGED iter
  /\ UNCHANGED offList

Extend ==
  /\ pc = "idle" /\ ~panicked
  /\ \E vec \in ExtendVecs :
       LET r == SetExtend(set, vec) IN
       /\ set' = r.set
       /\ last' = [op |-> "extend", arg |-> vec, ret |-> None, pre |-> set]
       /\ panicked' = r.panic
  /\ pc' = "returned"
  /\ UNCHANGED iter
  /\ UNCHANGED offList

Clone ==
  /\ pc = "idle" /\ ~panicked
  /\ last' = [op |-> "clone", arg |-> None, ret |-> SetClone(set), pre |-> set]
  /\ pc' = "returned"
  /\ UNCHANGED <<set, iter, panicked>>
  /\ UNCHANGED offList

Intersection ==
  /\ pc = "idle" /\ ~panicked
  /\ \E other \in Sets :
       LET r == SetIntersection(set, other) IN
       /\ last' = [op |-> "intersection", arg |-> other, ret |-> r.set, pre |-> set]
       /\ panicked' = r.panic
  /\ pc' = "returned"
  /\ UNCHANGED <<set, iter>>
  /\ UNCHANGED offList

Union ==
  /\ pc = "idle" /\ ~panicked
  /\ \E other \in Sets :
       LET r == SetUnion(set, other) IN
       /\ last' = [op |-> "union", arg |-> other, ret |-> r.set, pre |-> set]
       /\ panicked' = r.panic
  /\ pc' = "returned"
  /\ UNCHANGED <<set, iter>>
  /\ UNCHANGED offList

Difference ==
  /\ pc = "idle" /\ ~panicked
  /\ \E other \in Sets :
       LET r == SetDifference(set, other) IN
       /\ last' = [op |-> "difference", arg |-> other, ret |-> r.set, pre |-> set]
       /\ panicked' = r.panic
  /\ pc' = "returned"
  /\ UNCHANGED <<set, iter>>
  /\ UNCHANGED offList

SymmetricDifference ==
  /\ pc = "idle" /\ ~panicked
  /\ \E other \in Sets :
       LET r == SetSymmetricDifference(set, other) IN
       /\ last' = [op |-> "symmetric_difference", arg |-> other, ret |-> r.set,
                   pre |-> set]
       /\ panicked' = r.panic
  /\ pc' = "returned"
  /\ UNCHANGED <<set, iter>>
  /\ UNCHANGED offList

IsDisjoint ==
  /\ pc = "idle" /\ ~panicked
  /\ \E other \in Sets :
       last' = [op |-> "is_disjoint", arg |-> other,
                ret |-> SetIsDisjoint(set, other), pre |-> set]
  /\ pc' = "returned"
  /\ UNCHANGED <<set, iter, panicked>>
  /\ UNCHANGED offList

IsSubset ==
  /\ pc = "idle" /\ ~panicked
  /\ \E other \in Sets :
       last' = [op |-> "is_subset", arg |-> other,
                ret |-> SetIsSubset(set, other), pre |-> set]
  /\ pc' = "returned"
  /\ UNCHANGED <<set, iter, panicked>>
  /\ UNCHANGED offList

IsSuperset ==
  /\ pc = "idle" /\ ~panicked
  /\ \E other \in Sets :
       last' = [op |-> "is_superset", arg |-> other,
                ret |-> SetIsSuperset(set, other), pre |-> set]
  /\ pc' = "returned"
  /\ UNCHANGED <<set, iter, panicked>>
  /\ UNCHANGED offList

\* set.into_iter(): the Set moves into the iterator.  last.ret is what the
\* iterator has yielded so far.
IntoIter ==
  /\ pc = "idle" /\ ~panicked
  /\ pc' = "into_iter"
  /\ iter' = [kind |-> "into_iter", nones |-> 0]
  /\ last' = [op |-> "into_iter", arg |-> None, ret |-> <<>>, pre |-> set]
  /\ UNCHANGED <<set, panicked>>
  /\ UNCHANGED offList

IntoIterNext ==
  /\ pc = "into_iter" /\ ~panicked
  /\ iter.nones <= MaxIdleNext
  /\ LET r == IntoIterNextOn(set) IN
     /\ set' = r.set
     /\ last' = [last EXCEPT !.ret = last.ret \o r.ret]
     /\ iter' = [iter EXCEPT !.nones = IF r.ret = None THEN iter.nones + 1
                                       ELSE iter.nones]
  /\ UNCHANGED <<pc, panicked>>
  /\ UNCHANGED offList

\* The iterator is dropped, and the Set it wraps with it; the caller goes on
\* with a Set::new().
IntoIterDrop ==
  /\ pc = "into_iter" /\ ~panicked
  /\ pc' = "returned"
  /\ last' = [last EXCEPT !.op = "into_iter_drop",
                          !.arg = [left |-> set, detached |-> SetDrop(set)]]
  /\ set' = SetNew
  /\ iter' = NoIter
  /\ UNCHANGED panicked
  /\ UNCHANGED offList

\* set.cmp(&other)
Compare ==
  /\ pc = "idle" /\ ~panicked
  /\ \E other \in Sets :
       last' = [op |-> "cmp", arg |-> other,
                ret |-> SetCmp(set, other), pre |-> set]
  /\ pc' = "returned"
  /\ UNCHANGED <<set, iter, panicked>>
  /\ UNCHANGED offList

\* set == other
Equals ==
  /\ pc = "idle" /\ ~panicked
  /\ \E other \in Sets :
       last' = [op |-> "eq", arg |-> other,
                ret |-> SetEq(set, other), pre |-> set]
  /\ pc' = "returned"
  /\ UNCHANGED <<set, iter, panicked>>
  /\ UNCHANGED offList

\* set.iter(): the Set is borrowed until the iterator is dropped.  last.ret
\* is what the iterator has yielded so far.
Iter ==
  /\ pc = "idle" /\ ~panicked
  /\ pc' = "iter"
  /\ iter' = [kind |-> "iter", it |-> IterNew(set), nones |-> 0]
  /\ last' = [op |-> "iter", arg |-> None, ret |-> <<>>, pre |-> set]
  /\ UNCHANGED <<set, panicked>>
  /\ UNCHANGED offList

IterStep ==
  /\ pc = "iter" /\ ~panicked
  /\ iter.nones <= MaxIdleNext
  /\ LET r == IterNext(iter.it) IN
     /\ last' = [last EXCEPT !.ret = last.ret \o r.ret]
     /\ iter' = [iter EXCEPT !.it = r.it,
                             !.nones = IF r.ret = None THEN iter.nones + 1
                                       ELSE iter.nones]
  /\ UNCHANGED <<set, pc, panicked>>
  /\ UNCHANGED offList

IterEnd ==
  /\ pc = "iter" /\ ~panicked
  /\ pc' = "returned"
  /\ last' = [last EXCEPT !.op = "iter_end"]
  /\ iter' = NoIter
  /\ UNCHANGED <<set, panicked>>
  /\ UNCHANGED offList

\* set.drain_filter(pred).  last.ret is what the iterator has yielded to the
\* caller so far.
DrainFilter ==
  /\ pc = "idle" /\ ~panicked
  /\ \E pred \in Preds :
       /\ iter' = [kind |-> "drain_filter", link |-> CursorNew(set).link,
                   pred |-> pred, len |-> set.len, asked |-> <<>>,
                   nexts |-> 0, nones |-> 0]
       /\ last' = [op |-> "drain_filter", arg |-> pred, ret |-> <<>>, pre |-> set]
  /\ pc' = "drain_filter"
  /\ UNCHANGED <<set, panicked>>
  /\ UNCHANGED offList

DrainNext ==
  /\ pc = "drain_filter" /\ ~panicked
  /\ iter.nones <= MaxIdleNext
  /\ LET r == DrainFilterNext(set, iter) IN
     /\ set' = r.set
     /\ last' = [last EXCEPT !.ret = last.ret \o r.ret]
     /\ iter' = [r.df EXCEPT !.nexts = iter.nexts + 1,
                             !.nones = IF r.ret = None THEN iter.nones + 1
                                       ELSE iter.nones]
  /\ UNCHANGED <<pc, panicked>>
  /\ UNCHANGED offList

DrainDrop ==
  /\ pc = "drain_filter" /\ ~panicked
  /\ LET r == DrainFilterDrop(set, iter) IN
     /\ set' = r.set
     /\ last' = [last EXCEPT !.op = "drain_filter_drop",
                             !.arg = [pred |-> iter.pred, nexts |-> iter.nexts,
                                      nones |-> iter.nones, asked |-> r.df.asked,
                                      len |-> r.df.len]]
  /\ pc' = "returned"
  /\ iter' = NoIter
  /\ UNCHANGED panicked
  /\ UNCHANGED offList

\* The calling statement ends: the result is dropped and the caller is free
\* to make its next call.
Return ==
  /\ pc = "returned" /\ ~panicked
  /\ pc' = "idle"
  /\ last' = NoCall
  /\ UNCHANGED <<set, iter, panicked>>
  /\ UNCHANGED offList

Next ==
  \/ Contains
  \/ Insert
  \/ Replace
  \/ Remove
  \/ Extend
  \/ Clone
  \/ Intersection
  \/ Union
  \/ Difference
  \/ SymmetricDifference
  \/ IsDisjoint
  \/ IsSubset
  \/ IsSuperset
  \/ Compare
  \/ Equals
  \/ IntoIter
  \/ IntoIterNext
  \/ IntoIterDrop
  \/ Iter
  \/ IterStep
  \/ IterEnd
  \/ DrainFilter
  \/ DrainNext
  \/ DrainDrop
  \/ Return

Spec == Init /\ [][Next]_vars

(***************************************************************************)
(* What the properties below are stated with.                              *)
(***************************************************************************)
KeysOf(seq) == {seq[i].key : i \in 1..Len(seq)}

Range(seq) == {seq[i] : i \in 1..Len(seq)}

\* No two adjacent entries are equal or inverted under the element order.
StrictlyIncreasing(seq) ==
  \A i \in 1..(Len(seq) - 1) : Cmp(seq[i], seq[i + 1]) = "Less"

\* The entries of seq whose key is in keys, in their order in seq.
RECURSIVE KeepKeys(_, _)
KeepKeys(seq, keys) ==
  IF seq = <<>> THEN <<>>
  ELSE (IF Head(seq).key \in keys THEN <<Head(seq)>> ELSE <<>>)
       \o KeepKeys(Tail(seq), keys)

\* Some entry of seq compares Equal to e.
Occurs(seq, e) == \E i \in 1..Len(seq) : Cmp(seq[i], e) = "Equal"

\* The first entry of vec for each key that vec holds.
FirstOccurrences(vec) ==
  {vec[i] : i \in {j \in 1..Len(vec) :
                     \A k \in 1..(j - 1) : Cmp(vec[k], vec[j]) # "Equal"}}

SetValued ==
  {"clone", "intersection", "union", "difference", "symmetric_difference"}

(***************************************************************************)
(* C1.  In every state reachable by insert, replace, remove, extend and    *)
(* drain_filter (iterated to completion or dropped early), the chain read  *)
(* head-to-tail is strictly increasing under the element order.            *)
(***************************************************************************)
C1_ChainStrictlyIncreasing == StrictlyIncreasing(set.head)

\* A drain_filter dropped after one next() that leaves two or more nodes.
C1_Witness ==
  /\ last.op = "drain_filter_drop"
  /\ last.arg.nexts = 1
  /\ last.arg.nones = 0
  /\ Len(set.head) >= 2
  /\ Len(last.pre.head) > Len(set.head)

(***************************************************************************)
(* C2.  The cached length equals the number of nodes reachable from head,  *)
(* in every state (so after every insert, replace, remove and every next() *)
(* of the consuming and the drain-filter iterator) and in every Set that   *)
(* clone or a set-algebra operation returns; len() and is_empty() are      *)
(* exact.                                                                  *)
(***************************************************************************)
C2_LenIsNodeCount ==
  /\ set.len = Len(set.head)
  /\ SetLen(set) = Len(set.head)
  /\ SetIsEmpty(set) <=> (set.head = <<>>)
  /\ last.op \in SetValued =>
       /\ last.ret.len = Len(last.ret.head)
       /\ SetIsEmpty(last.ret) <=> (last.ret.head = <<>>)

\* Between two next() calls of a drain-filter iterator that has removed a
\* node and left one behind.
C2_Witness ==
  /\ pc = "drain_filter"
  /\ Len(last.ret) >= 1
  /\ iter.link # None
  /\ iter.link[1] >= 1
  /\ set.len >= 2

(***************************************************************************)
(* C3.  For every sequence of elements inserted in any order into an empty *)
(* Set (by insert, extend or from_iter), the borrowing iterator yields     *)
(* exactly the distinct elements of the sequence (the first one inserted   *)
(* for each key) in strictly increasing order, and len() is the number of  *)
(* distinct elements.                                                      *)
(***************************************************************************)
C3_IntoEmpty ==
  \/ last.op = "from_iter"
  \/ last.op \in {"extend", "insert"} /\ last.pre = SetNew

C3_Inserted == IF last.op = "insert" THEN <<last.arg>> ELSE last.arg

C3_IterYieldsDistinctAscending ==
  C3_IntoEmpty =>
    LET yielded == IterCollect(IterNew(set)) IN
    /\ StrictlyIncreasing(yielded)
    /\ Range(yielded) = FirstOccurrences(C3_Inserted)
    /\ Len(yielded) = Cardinality(KeysOf(C3_Inserted))
    /\ SetLen(set) = Cardinality(KeysOf(C3_Inserted))

\* from_iter of three elements given out of order, two of them equal.
C3_Witness ==
  /\ last.op = "from_iter"
  /\ Len(last.arg) = 3
  /\ last.arg[1].key > last.arg[2].key
  /\ last.arg[3].key = last.arg[1].key
  /\ last.arg[3].tag # last.arg[1].tag
  /\ SetLen(set) = 2

(***************************************************************************)
(* C4.  The Set built from vec contains e iff e occurs in vec; the early   *)
(* exit of contains on the first node greater than e never misses an       *)
(* element that is present.                                                *)
(***************************************************************************)
C4_ContainsIffOccurs ==
  /\ last.op = "from_iter" =>
       \A e \in Elem : SetContains(set, e) <=> Occurs(last.arg, e)
  /\ last.op = "contains" =>
       (last.ret <=> Occurs(last.pre.head, last.arg))

\* contains left early, on a node greater than the element, after passing a
\* smaller one.
C4_Witness ==
  /\ last.op = "contains"
  /\ ~last.ret
  /\ \E i \in 1..Len(set.head) : set.head[i].key < last.arg.key
  /\ \E i \in 1..Len(set.head) : set.head[i].key > last.arg.key

(***************************************************************************)
(* C5.  insert(e) returns true iff the Set did not contain e before the    *)
(* call; a second insert of the same element right after returns false,    *)
(* so len grows by exactly one in total, and it leaves the chain, the      *)
(* stored element that compares equal included, unchanged.                 *)
(***************************************************************************)
C5_InsertIdempotent ==
  last.op = "insert" =>
    /\ last.ret <=> ~Occurs(last.pre.head, last.arg)
    /\ set.len = last.pre.len + (IF last.ret THEN 1 ELSE 0)
    /\ ~last.ret => set = last.pre
    /\ \A again \in {e \in Elem : Cmp(e, last.arg) = "Equal"} :
         LET second == SetInsert(set, again) IN
         /\ second.ret = FALSE
         /\ second.set = set

\* An insert between two nodes that returned true.
C5_Witness ==
  /\ last.op = "insert"
  /\ last.ret
  /\ Len(set.head) = 3
  /\ set.head[2] = last.arg

(***************************************************************************)
(* C6.  remove undoes insert: for every Set S and every e not in S,        *)
(* S.insert(e) followed by S.remove(&e) returns Some(e) and leaves S equal *)
(* under the Set's own equality to S before the insert, with the same len. *)
(***************************************************************************)
C6_RemoveUndoesInsert ==
  (last.op = "insert" /\ ~Occurs(last.pre.head, last.arg)) =>
    LET undone == SetRemove(set, last.arg) IN
    /\ undone.ret = Some(last.arg)
    /\ SetEq(undone.set, last.pre)
    /\ undone.set.len = last.pre.len

\* e was inserted in front of two nodes of S.
C6_Witness ==
  /\ last.op = "insert"
  /\ ~Occurs(last.pre.head, last.arg)
  /\ Len(last.pre.head) = 2
  /\ set.head[1] = last.arg

(***************************************************************************)
(* C7.  remove(e) returns Some(stored element) iff e is in the Set; then   *)
(* exactly that element disappears, len decreases by one and every other   *)
(* element stays in place.  When e is absent it returns None and the chain *)
(* and len are unchanged.                                                  *)
(***************************************************************************)
C7_RemoveExactlyOne ==
  last.op = "remove" =>
    IF Occurs(last.pre.head, last.arg)
    THEN /\ Len(last.ret) = 1
         /\ last.ret[1] \in Range(last.pre.head)
         /\ Cmp(last.ret[1], last.arg) = "Equal"
         /\ set.head = KeepKeys(last.pre.head, Keys \ {last.arg.key})
         /\ set.len = last.pre.len - 1
    ELSE /\ last.ret = None
         /\ set = last.pre

\* The middle node of three was removed, with an element that is not the
\* stored one.
C7_Witness ==
  /\ last.op = "remove"
  /\ Len(last.pre.head) = 3
  /\ last.ret = Some(last.pre.head[2])
  /\ last.ret[1] # last.arg

(***************************************************************************)
(* C8.  replace(e): if the Set holds an element comparing equal to e, it   *)
(* is overwritten in place by e, the old element is returned as Some, and  *)
(* len and all other elements are unchanged; otherwise e is inserted at    *)
(* its sorted position, None is returned and len increases by one.         *)
(***************************************************************************)
C8_ReplaceInPlace ==
  last.op = "replace" =>
    IF Occurs(last.pre.head, last.arg)
    THEN \E i \in 1..Len(last.pre.head) :
           /\ Cmp(last.pre.head[i], last.arg) = "Equal"
           /\ last.ret = Some(last.pre.head[i])
           /\ set.head = [last.pre.head EXCEPT ![i] = last.arg]
           /\ set.len = last.pre.len
    ELSE /\ last.ret = None
         /\ set.len = last.pre.len + 1
         /\ last.arg \in Range(set.head)
         /\ StrictlyIncreasing(set.head)
         /\ KeepKeys(set.head, Keys \ {last.arg.key}) = last.pre.head

\* The middle node of three was overwritten by a different copy.
C8_Witness ==
  /\ last.op = "replace"
  /\ Len(last.pre.head) = 3
  /\ last.ret = Some(last.pre.head[2])
  /\ last.ret[1] # last.arg
  /\ set.head[2] = last.arg

(***************************************************************************)
(* C9.  For all Sets A and B and every element x, A.intersection(&B)       *)
(* contains x iff A contains x and B contains x; B.intersection(&A) is the *)
(* same Set.                                                               *)
(***************************************************************************)
C9_Intersection ==
  last.op = "intersection" =>
    /\ \A x \in Elem :
         SetContains(last.ret, x) <=>
           (SetContains(last.pre, x) /\ SetContains(last.arg, x))
    /\ KeysOf(last.ret.head) = KeysOf(last.pre.head) \cap KeysOf(last.arg.head)
    /\ SetEq(last.ret, SetIntersection(last.arg, last.pre).set)

\* Both operands hold a common element and one of their own.
C9_Witness ==
  /\ last.op = "intersection"
  /\ last.ret.head # <<>>
  /\ KeysOf(last.pre.head) \ KeysOf(last.arg.head) # {}
  /\ KeysOf(last.arg.head) \ KeysOf(last.pre.head) # {}

(***************************************************************************)
(* C10.  For all Sets A and B and every element x, A.union(&B) contains x  *)
(* iff A contains x or B contains x, an element present in both is emitted *)
(* exactly once, and B.union(&A) is the same Set.                          *)
(***************************************************************************)
C10_Union ==
  last.op = "union" =>
    /\ \A x \in Elem :
         SetContains(last.ret, x) <=>
           (SetContains(last.pre, x) \/ SetContains(last.arg, x))
    /\ \A k \in Keys :
         Cardinality({i \in 1..Len(last.ret.head) : last.ret.head[i].key = k})
           = (IF k \in KeysOf(last.pre.head) \cup KeysOf(last.arg.head)
              THEN 1 ELSE 0)
    /\ SetEq(last.ret, SetUnion(last.arg, last.pre).set)

\* The operands share an element, and each holds one the other lacks.
C10_Witness ==
  /\ last.op = "union"
  /\ KeysOf(last.pre.head) \cap KeysOf(last.arg.head) # {}
  /\ KeysOf(last.pre.head) \ KeysOf(last.arg.head) # {}
  /\ KeysOf(last.arg.head) \ KeysOf(last.pre.head) # {}

(***************************************************************************)
(* C11.  For all Sets A and B and every element x, A.difference(&B)        *)
(* contains x iff A contains x and B does not contain x, the elements of A *)
(* that remain after B's iterator is exhausted included.                   *)
(***************************************************************************)
C11_Difference ==
  last.op = "difference" =>
    /\ \A x \in Elem :
         SetContains(last.ret, x) <=>
           (SetContains(last.pre, x) /\ ~SetContains(last.arg, x))
    /\ last.ret.head =
         KeepKeys(last.pre.head, Keys \ KeysOf(last.arg.head))

\* A holds an element of B, and one greater than every element of B.
C11_Witness ==
  /\ last.op = "difference"
  /\ KeysOf(last.pre.head) \cap KeysOf(last.arg.head) # {}
  /\ \E x \in KeysOf(last.pre.head) :
       \A y \in KeysOf(last.arg.head) : y < x
  /\ last.ret.head # <<>>

(***************************************************************************)
(* C12.  For all Sets A and B and every element x,                         *)
(* A.symmetric_difference(&B) contains x iff exactly one of A and B        *)
(* contains x, and it equals B.symmetric_difference(&A).                   *)
(***************************************************************************)
C12_SymmetricDifference ==
  last.op = "symmetric_difference" =>
    /\ \A x \in Elem :
         SetContains(last.ret, x) <=>
           (SetContains(last.pre, x) # SetContains(last.arg, x))
    /\ KeysOf(last.ret.head) =
         (KeysOf(last.pre.head) \ KeysOf(last.arg.head))
           \cup (KeysOf(last.arg.head) \ KeysOf(last.pre.head))
    /\ SetEq(last.ret, SetSymmetricDifference(last.arg, last.pre).set)

\* The operands share an element and each holds one the other lacks.
C12_Witness ==
  /\ last.op = "symmetric_difference"
  /\ KeysOf(last.pre.head) \cap KeysOf(last.arg.head) # {}
  /\ KeysOf(last.pre.head) \ KeysOf(last.arg.head) # {}
  /\ KeysOf(last.arg.head) \ KeysOf(last.pre.head) # {}
  /\ Len(last.ret.head) >= 2

(***************************************************************************)
(* C13.  A.is_subset(&B) returns true iff every element of A is contained  *)
(* in B: A.is_subset(&A) is always true, an empty A is a subset of every   *)
(* B, a non-empty A is not a subset of a B that runs out first, and        *)
(* A.is_superset(&B) equals B.is_subset(&A).                               *)
(***************************************************************************)
C13_IsSubset ==
  /\ SetIsSubset(set, set)
  /\ last.op = "is_subset" =>
       /\ last.ret <=>
            (\A x \in Elem : SetContains(last.pre, x) => SetContains(last.arg, x))
       /\ last.ret <=> (KeysOf(last.pre.head) \subseteq KeysOf(last.arg.head))
       /\ last.pre.head = <<>> => last.ret
  /\ last.op = "is_superset" =>
       /\ last.ret <=> (KeysOf(last.arg.head) \subseteq KeysOf(last.pre.head))
       /\ last.ret = SetIsSubset(last.arg, last.pre)

\* B is a proper, non-empty prefix of A: B runs out first.
C13_Witness ==
  /\ last.op = "is_subset"
  /\ ~last.ret
  /\ last.arg.head # <<>>
  /\ Len(last.pre.head) > Len(last.arg.head)
  /\ SubSeq(last.pre.head, 1, Len(last.arg.head)) = last.arg.head

(***************************************************************************)
(* C14.  A.is_disjoint(&B) returns true iff A.intersection(&B) is empty    *)
(* (no element is in both); A.is_disjoint(&B) = B.is_disjoint(&A); a       *)
(* non-empty Set is never disjoint from itself.                            *)
(***************************************************************************)
C14_IsDisjoint ==
  /\ set.head # <<>> => ~SetIsDisjoint(set, set)
  /\ last.op = "is_disjoint" =>
       /\ last.ret <=> SetIsEmpty(SetIntersection(last.pre, last.arg).set)
       /\ last.ret <=> (KeysOf(last.pre.head) \cap KeysOf(last.arg.head) = {})
       /\ last.ret = SetIsDisjoint(last.arg, last.pre)

\* The only common element comes after a smaller element of B.
C14_Witness ==
  /\ last.op = "is_disjoint"
  /\ ~last.ret
  /\ Len(last.arg.head) >= 2
  /\ last.pre.head # <<>>
  /\ last.arg.head[1].key < last.pre.head[1].key

(***************************************************************************)
(* C15.  drain_filter(P) iterated to completion yields exactly the         *)
(* elements of the original Set for which P is true, in ascending order,   *)
(* and leaves in the Set exactly those for which P is false, in their      *)
(* original order, with len the number of retained elements; P is          *)
(* evaluated exactly once on each original element.                        *)
(***************************************************************************)
\* next() has returned None: the iterator is alive, or was dropped after it.
C15_Completed ==
  \/ pc = "drain_filter" /\ iter.nones >= 1
  \/ last.op = "drain_filter_drop" /\ last.arg.nones >= 1

C15_Pred == IF pc = "drain_filter" THEN iter.pred ELSE last.arg.pred

C15_Asked == IF pc = "drain_filter" THEN iter.asked ELSE last.arg.asked

C15_DrainFilterCompleted ==
  C15_Completed =>
    /\ last.ret = KeepKeys(last.pre.head, C15_Pred)
    /\ StrictlyIncreasing(last.ret)
    /\ set.head = KeepKeys(last.pre.head, Keys \ C15_Pred)
    /\ SetLen(set) = Len(set.head)
    /\ C15_Asked = last.pre.head

\* Three elements, the middle one retained, iterated until None.
C15_Witness ==
  /\ pc = "drain_filter"
  /\ iter.nones = 1
  /\ Len(last.pre.head) = 3
  /\ Len(last.ret) = 2
  /\ set.head = <<last.pre.head[2]>>
  /\ iter.nexts = 3

(***************************************************************************)
(* C16.  If a drain_filter iterator is dropped after any number k >= 0 of  *)
(* next() calls (zero, and after exhaustion, included), the drop runs the  *)
(* remaining filter pass to completion: the Set ends with exactly the      *)
(* elements for which the predicate is false, the final state of a full    *)
(* iteration, whatever k was.                                              *)
(***************************************************************************)
C16_DropCompletesFilter ==
  last.op = "drain_filter_drop" =>
    /\ set.head = KeepKeys(last.pre.head, Keys \ last.arg.pred)
    /\ set.len = Len(set.head)
    /\ last.arg.asked = last.pre.head
    /\ last.ret = SubSeq(KeepKeys(last.pre.head, last.arg.pred), 1, Len(last.ret))

\* Dropped after one next() out of three elements, with one more to remove
\* and one to keep still ahead of the cursor.
C16_Witness ==
  /\ last.op = "drain_filter_drop"
  /\ last.arg.nexts = 1
  /\ last.arg.nones = 0
  /\ Len(last.pre.head) = 3
  /\ Len(last.ret) = 1
  /\ Len(set.head) = 1

(***************************************************************************)
(* C17.  Consuming iteration over a Set of length n yields exactly n       *)
(* elements in strictly ascending order, then None on every later call;    *)
(* the exact-size hint after k yields is n-k, and after the n-th yield the *)
(* wrapped Set is empty (head empty, len 0).                               *)
(***************************************************************************)
C17_IntoIter ==
  pc = "into_iter" =>
    LET n == Len(last.pre.head)
        k == Len(last.ret) IN
    /\ last.ret = SubSeq(last.pre.head, 1, k)
    /\ StrictlyIncreasing(last.ret)
    /\ IntoIterSizeHint(set) = <<n - k, Some(n - k)>>
    /\ IntoIterLen(set) = n - k
    /\ iter.nones >= 1 => k = n
    /\ k = n =>
         /\ set.head = <<>>
         /\ set.len = 0
         /\ IntoIterNextOn(set).ret = None
         /\ IntoIterNextOn(set).set = set

\* All three elements were yielded, and next() has returned None twice.
C17_Witness ==
  /\ pc = "into_iter"
  /\ Len(last.pre.head) = 3
  /\ Len(last.ret) = 3
  /\ iter.nones = 2

(***************************************************************************)
(* C18.  The borrowing iterator over a Set of length n yields its elements *)
(* in ascending order, reports an exact remaining count of n-k after k     *)
(* successful next() calls (never underflowing), returns None forever once *)
(* exhausted, and leaves the Set's chain and len unchanged.                *)
(***************************************************************************)
C18_Iter ==
  pc = "iter" =>
    LET n == Len(last.pre.head)
        k == Len(last.ret) IN
    /\ last.ret = SubSeq(last.pre.head, 1, k)
    /\ StrictlyIncreasing(last.ret)
    /\ IterLen(iter.it) = n - k
    /\ IterSizeHint(iter.it) = <<n - k, Some(n - k)>>
    /\ IterLen(iter.it) >= 0
    /\ iter.nones >= 1 => k = n
    /\ k = n =>
         /\ IterNext(iter.it).ret = None
         /\ IterNext(iter.it).it = iter.it
    /\ set = last.pre
    /\ iter.it.chain = set.head

\* All three elements were yielded, and next() has returned None twice.
C18_Witness ==
  /\ pc = "iter"
  /\ Len(last.pre.head) = 3
  /\ Len(last.ret) = 3
  /\ iter.nones = 2

\* The positions at which both sequences have an element and the two differ
\* under the element order.
C19_Differ(a, b) ==
  {i \in 1..Len(a) : i <= Len(b) /\ Cmp(a[i], b[i]) # "Equal"}

C19_First(S) == CHOOSE i \in S : \A j \in S : i <= j

\* The lexicographic order of two sequences, stated without the loop.
C19_Lex(a, b) ==
  IF C19_Differ(a, b) # {}
  THEN LET m == C19_First(C19_Differ(a, b)) IN Cmp(a[m], b[m])
  ELSE IF Len(a) < Len(b) THEN "Less"
  ELSE IF Len(a) > Len(b) THEN "Greater"
  ELSE "Equal"

C19_Reverse(ord) ==
  IF ord = "Less" THEN "Greater"
  ELSE IF ord = "Greater" THEN "Less"
  ELSE "Equal"

(***************************************************************************)
(* C19.  Set comparison is the lexicographic order of the two ascending    *)
(* element sequences: the first position at which they differ decides, a   *)
(* proper prefix is Less, the result is Equal iff both have the same       *)
(* length and elements, and cmp(A, B) is the reverse of cmp(B, A).         *)
(***************************************************************************)
C19_CmpLexicographic ==
  last.op = "cmp" =>
    LET a == last.pre.head
        b == last.arg.head IN
    /\ last.ret = C19_Lex(a, b)
    /\ SetPartialCmp(last.pre, last.arg) = Some(last.ret)
    /\ (last.ret = "Equal") <=>
         /\ Len(a) = Len(b)
         /\ \A i \in 1..Len(a) : Cmp(a[i], b[i]) = "Equal"
    /\ (Len(a) < Len(b) /\ C19_Differ(a, b) = {}) => last.ret = "Less"
    /\ SetCmp(last.arg, last.pre) = C19_Reverse(last.ret)

\* A two-element Set compared with a three-element Set it is a proper
\* prefix of.
C19_Witness ==
  /\ last.op = "cmp"
  /\ Len(last.pre.head) = 2
  /\ Len(last.arg.head) = 3
  /\ C19_Differ(last.pre.head, last.arg.head) = {}
  /\ last.ret = "Less"

(***************************************************************************)
(* C20.  Set equality is independent of construction history: a Set        *)
(* reached by any sequence of insert, replace, remove and drain_filter     *)
(* and a Set built by from_iter compare equal (== and cmp = Equal) iff     *)
(* they contain the same elements, and every Set a history reaches is the  *)
(* Set from_iter builds from that Set's own elements.                      *)
(***************************************************************************)
C20_EqIgnoresHistory ==
  last.op = "eq" =>
    /\ last.ret <=> (KeysOf(last.pre.head) = KeysOf(last.arg.head))
    /\ last.ret <=> (SetCmp(last.pre, last.arg) = "Equal")
    /\ last.ret <=> SetEq(last.arg, last.pre)
    /\ SetFromIter(last.pre.head).set = last.pre

\* Two Sets of two elements each, equal although replace has left different
\* payloads in them.
C20_Witness ==
  /\ last.op = "eq"
  /\ last.ret
  /\ Len(last.pre.head) = 2
  /\ last.pre.head # last.arg.head

\* A cursor over the Set that holds no Link.
C24_Empty(s) == [CursorNew(s) EXCEPT !.link = None]

(***************************************************************************)
(* C24.  CursorMut::insert aborts when the cursor holds no Link, and the   *)
(* abort is unreachable through the public API: in every execution of      *)
(* from_iter, extend, insert, replace, intersection, union, difference     *)
(* and symmetric_difference the cursor is at a valid Link at each call of  *)
(* CursorMut::insert, so no call has panicked.                             *)
(***************************************************************************)
C24_InsertAbortUnreachable ==
  /\ ~panicked
  /\ \A x \in Elem :
       /\ CursorInsert(C24_Empty(set), x).panic
       /\ CursorSet(CursorInsert(C24_Empty(set), x)) = set
  /\ last.op = "insert" => ~SetInsert(last.pre, last.arg).panic
  /\ last.op = "replace" => ~SetReplace(last.pre, last.arg).panic
  /\ last.op = "intersection" => ~SetIntersection(last.pre, last.arg).panic
  /\ last.op = "union" => ~SetUnion(last.pre, last.arg).panic
  /\ last.op = "difference" => ~SetDifference(last.pre, last.arg).panic
  /\ last.op = "symmetric_difference" =>
       ~SetSymmetricDifference(last.pre, last.arg).panic

\* insert has walked the cursor over two or more nodes to the Link at the
\* end of the chain and spliced the element in there.
C24_Witness ==
  /\ last.op = "insert"
  /\ last.ret = TRUE
  /\ Len(last.pre.head) >= 2
  /\ set.head = Append(last.pre.head, last.arg)
  /\ ~panicked

(***************************************************************************)
(* C26.  Every Set returned by intersection, union, difference and         *)
(* symmetric_difference is well formed: built by cursor insert-then-       *)
(* advance appends, its chain is strictly increasing and its len is the    *)
(* number of emitted elements; and both receivers have the same elements   *)
(* and len after the call as before.                                       *)
(***************************************************************************)
C26_AlgebraWellFormed ==
  last.op \in {"intersection", "union", "difference", "symmetric_difference"} =>
    /\ StrictlyIncreasing(last.ret.head)
    /\ last.ret.len = Len(last.ret.head)
    /\ last.ret.len = Cardinality(KeysOf(last.ret.head))
    /\ Range(last.ret.head) \subseteq Range(last.pre.head) \cup Range(last.arg.head)
    /\ set = last.pre
    /\ IterCollect(IterNew(set)) = last.pre.head
    /\ IterCollect(IterNew(last.arg)) = last.arg.head

\* A symmetric difference of two or more elements, taken from both
\* receivers, which also share an element.
C26_Witness ==
  /\ last.op = "symmetric_difference"
  /\ Len(last.ret.head) >= 2
  /\ Range(last.ret.head) \cap Range(last.pre.head) # {}
  /\ Range(last.ret.head) \cap Range(last.arg.head) # {}
  /\ KeysOf(last.pre.head) \cap KeysOf(last.arg.head) # {}

(***************************************************************************)
(* The heap.  A Link is None or Some(address of a Box<Node>); a Box is     *)
(* owned by exactly the Link that holds its address, and is deallocated    *)
(* when it is moved out of or dropped.  The operations below are the same  *)
(* code as above, read at the level of the Boxes they allocate, relink     *)
(* and free.                                                               *)
(***************************************************************************)
MaxHeapOps == 2

HeapKeys == {0, 1, 2}

\* Room for two chains of every key.
Addrs == 1..(2 * Cardinality(HeapKeys))

\* The vectors the first Set is collected from.
HeapVecs ==
  UNION {[1..n -> [key : HeapKeys, tag : {0}]] : n \in 0..Cardinality(HeapKeys)}

\* Box::new: the allocator hands out the lowest free address.
Alloc(h) ==
  CHOOSE a \in Addrs \ DOMAIN h : \A b \in Addrs \ DOMAIN h : a <= b

\* Node::new: [heap, link]
NodeNew(h, data, link) ==
  LET a == Alloc(h) IN
  [heap |-> h @@ (a :> [data |-> data, link |-> link]), link |-> Some(a)]

\* A Box is deallocated.
Dealloc(h, a) == [b \in DOMAIN h \ {a} |-> h[b]]

\* CursorMut over the heap: loc is None, or Some(0) for the Set's own head
\* field, or Some(a) for the link field of the node at a.
HeapCursorNew(h, s) ==
  [heap |-> h, set |-> s, loc |-> Some(0), panic |-> FALSE]

\* The Link the cursor refers to, and a store through that reference.
Deref(cur) ==
  IF cur.loc[1] = 0 THEN cur.set.head ELSE cur.heap[cur.loc[1]].link

Store(cur, link) ==
  IF cur.loc[1] = 0 THEN [cur EXCEPT !.set.head = link]
  ELSE [cur EXCEPT !.heap[cur.loc[1]].link = link]

HeapCursorData(cur) ==
  IF cur.loc = None THEN None
  ELSE IF Deref(cur) = None THEN None
  ELSE Some(cur.heap[Deref(cur)[1]].data)

HeapCursorAdvance(cur) ==
  IF cur.loc = None THEN cur
  ELSE IF Deref(cur) = None THEN [cur EXCEPT !.loc = None]
  ELSE [cur EXCEPT !.loc = Some(Deref(cur)[1])]

\* [cur, ret]
HeapCursorRemove(cur) ==
  IF cur.loc = None THEN [cur |-> cur, ret |-> None]
  ELSE IF Deref(cur) = None THEN [cur |-> cur, ret |-> None]
  ELSE LET a == Deref(cur)[1]
           node == cur.heap[a]
           relinked == Store(cur, node.link) IN
       [cur |-> [relinked EXCEPT !.heap = Dealloc(relinked.heap, a),
                                 !.set.len = cur.set.len - 1],
        ret |-> Some(node.data)]

HeapCursorInsert(cur, data) ==
  IF cur.loc = None THEN [cur EXCEPT !.panic = TRUE]
  ELSE LET n == NodeNew(cur.heap, data, Deref(cur))
           stored == Store([cur EXCEPT !.heap = n.heap], n.link) IN
       [stored EXCEPT !.set.len = cur.set.len + 1]

\* mem::replace(data, element) through data_mut: [cur, ret]
HeapMemReplace(cur, element) ==
  LET a == Deref(cur)[1] IN
  [cur |-> [cur EXCEPT !.heap[a].data = element], ret |-> cur.heap[a].data]

Outcome(cur, ret) ==
  [heap |-> cur.heap, set |-> cur.set, ret |-> ret, panic |-> cur.panic]

RECURSIVE HeapInsertLoop(_, _)
HeapInsertLoop(cur, element) ==
  LET data == HeapCursorData(cur) IN
  IF data = None THEN Outcome(HeapCursorInsert(cur, element), TRUE)
  ELSE LET ord == Cmp(element, data[1]) IN
       IF ord = "Less" THEN Outcome(HeapCursorInsert(cur, element), TRUE)
       ELSE IF ord = "Equal" THEN Outcome(cur, FALSE)
       ELSE HeapInsertLoop(HeapCursorAdvance(cur), element)

HeapSetInsert(h, s, element) == HeapInsertLoop(HeapCursorNew(h, s), element)

RECURSIVE HeapReplaceLoop(_, _)
HeapReplaceLoop(cur, element) ==
  LET data == HeapCursorData(cur) IN
  IF data = None THEN Outcome(HeapCursorInsert(cur, element), None)
  ELSE LET ord == Cmp(element, data[1]) IN
       IF ord = "Less" THEN Outcome(HeapCursorInsert(cur, element), None)
       ELSE IF ord = "Equal"
            THEN LET r == HeapMemReplace(cur, element) IN
                 Outcome(r.cur, Some(r.ret))
       ELSE HeapReplaceLoop(HeapCursorAdvance(cur), element)

HeapSetReplace(h, s, element) == HeapReplaceLoop(HeapCursorNew(h, s), element)

RECURSIVE HeapRemoveLoop(_, _)
HeapRemoveLoop(cur, element) ==
  LET data == HeapCursorData(cur) IN
  IF data = None THEN Outcome(cur, None)
  ELSE LET ord == Cmp(element, data[1]) IN
       IF ord = "Less" THEN Outcome(cur, None)
       ELSE IF ord = "Equal"
            THEN LET r == HeapCursorRemove(cur) IN Outcome(r.cur, r.ret)
       ELSE HeapRemoveLoop(HeapCursorAdvance(cur), element)

HeapSetRemove(h, s, element) == HeapRemoveLoop(HeapCursorNew(h, s), element)

\* set.drain_filter(pred), dropped at once: DrainFilter::drop runs next()
\* until it returns None, and each next() resumes where the cursor stands.
RECURSIVE HeapDrainLoop(_, _, _)
HeapDrainLoop(cur, pred, drained) ==
  LET data == HeapCursorData(cur) IN
  IF data = None THEN Outcome(cur, drained)
  ELSE IF data[1].key \in pred
       THEN HeapDrainLoop(HeapCursorRemove(cur).cur, pred, Append(drained, data[1]))
       ELSE HeapDrainLoop(HeapCursorAdvance(cur), pred, drained)

HeapSetDrainFilter(h, s, pred) == HeapDrainLoop(HeapCursorNew(h, s), pred, <<>>)

\* Set::new and extend, as from_iter runs them: [heap, set, panic]
RECURSIVE HeapExtendLoop(_, _, _, _)
HeapExtendLoop(h, s, vec, panic) ==
  IF vec = <<>> \/ panic THEN [heap |-> h, set |-> s, panic |-> panic]
  ELSE LET r == HeapSetInsert(h, s, Head(vec)) IN
       HeapExtendLoop(r.heap, r.set, Tail(vec), r.panic)

HeapFromIter(vec) == HeapExtendLoop(<<>>, SetNew, vec, FALSE)

\* Faulty clone: the head Link and len are copied, the nodes are not.
HeapSetCloneShallow(h, self) == [heap |-> h, set |-> self]

\* The for loop of clone.  `cur` is where the next node goes: 0 for the
\* result's head, else the link field of the node at that address; `it` is
\* the borrowing iterator's Link into self.
RECURSIVE HeapCloneLoop(_, _, _, _)
HeapCloneLoop(h, result, cur, it) ==
  IF it = None THEN [heap |-> h, set |-> result]
  ELSE LET n == NodeNew(h, h[it[1]].data, None)
           next == h[it[1]].link IN
       IF cur = 0
       THEN HeapCloneLoop(n.heap, [result EXCEPT !.head = n.link], n.link[1], next)
       ELSE HeapCloneLoop([n.heap EXCEPT ![cur].link = n.link], result, n.link[1], next)

\* [heap, set]
HeapSetClone(h, self) ==
  LET r == HeapCloneLoop(h, SetNew, 0, self.head) IN
  [heap |-> r.heap, set |-> [r.set EXCEPT !.len = self.len]]

\* The elements a Link's chain holds, in order, and the Boxes it owns.
RECURSIVE HeapChain(_, _)
HeapChain(h, link) ==
  IF link = None THEN <<>>
  ELSE <<h[link[1]].data>> \o HeapChain(h, h[link[1]].link)

RECURSIVE HeapNodes(_, _)
HeapNodes(h, link) ==
  IF link = None THEN {}
  ELSE {link[1]} \cup HeapNodes(h, h[link[1]].link)

\* An Option<Set> on the heap, as the Set of elements it stands for.
Abs(h, os) ==
  IF os = None THEN None
  ELSE Some([head |-> HeapChain(h, os[1].head), len |-> os[1].len])

Owned(h, os) == IF os = None THEN {} ELSE HeapNodes(h, os[1].head)

Side(n) == IF n = 1 THEN set1 ELSE set2

HeapInit ==
  /\ \E vec \in HeapVecs :
       LET r == HeapFromIter(vec) IN
       /\ heap = r.heap
       /\ set1 = Some(r.set)
       /\ hlast = [op |-> "from_iter", side |-> 1, other |-> None, nth |-> 0]
  /\ set2 = None
  /\ hdrop = NoDrop
  /\ ListIdle
  /\ BstIdle
  /\ CursorIdle
  /\ VecIdle

\* let set2 = set1.clone();
TestClone ==
  /\ hdrop = NoDrop
  /\ hlast.op = "from_iter"
  /\ set1 # None /\ set2 = None
  /\ LET r == HeapSetClone(heap, set1[1]) IN
     /\ heap' = r.heap
     /\ set2' = Some(r.set)
  /\ hlast' = [op |-> "clone", side |-> 1, other |-> None, nth |-> 0]
  /\ UNCHANGED <<set1, hdrop, offHeap>>

\* One of the mutating operations has run on Set `n` and produced r.
Mutated(n, op, r) ==
  /\ heap' = r.heap
  /\ IF n = 1 THEN set1' = Some(r.set) /\ UNCHANGED set2
     ELSE set2' = Some(r.set) /\ UNCHANGED set1
  /\ hlast' = [op |-> op, side |-> n, other |-> Abs(heap, Side(3 - n)),
               nth |-> hlast.nth + 1]
  /\ UNCHANGED <<hdrop, offHeap>>

\* The two Sets are alive and no call is under way.
BothAlive ==
  /\ hdrop = NoDrop
  /\ set1 # None /\ set2 # None
  /\ hlast.nth < MaxHeapOps

MutInsert ==
  /\ BothAlive
  /\ \E n \in {1, 2}, k \in HeapKeys :
       LET r == HeapSetInsert(heap, Side(n)[1], [key |-> k, tag |-> 0]) IN
       ~r.panic /\ Mutated(n, "insert", r)

MutReplace ==
  /\ BothAlive
  /\ \E n \in {1, 2}, k \in HeapKeys :
       LET r == HeapSetReplace(heap, Side(n)[1], [key |-> k, tag |-> 1]) IN
       ~r.panic /\ Mutated(n, "replace", r)

MutRemove ==
  /\ BothAlive
  /\ \E n \in {1, 2}, k \in HeapKeys :
       Mutated(n, "remove", HeapSetRemove(heap, Side(n)[1], [key |-> k, tag |-> 0]))

MutDrainFilter ==
  /\ BothAlive
  /\ \E n \in {1, 2}, pred \in SUBSET HeapKeys :
       Mutated(n, "drain_filter", HeapSetDrainFilter(heap, Side(n)[1], pred))

\* The drop glue of a Link: the Box it owns is dropped, which first drops
\* the node's own link field.  depth is how many drops are then nested.
RECURSIVE DropLink(_, _)
DropLink(h, link) ==
  IF link = None THEN [heap |-> h, depth |-> 0]
  ELSE LET inner == DropLink(h, h[link[1]].link) IN
       [heap |-> Dealloc(inner.heap, link[1]), depth |-> inner.depth + 1]

\* Faulty loop body of Set::drop: `next` is dropped with its link in place.
DropBodyKeepsLink(h, head) ==
  LET d == DropLink(h, head) IN
  [heap |-> d.heap, head |-> None, depth |-> d.depth]

\* One iteration of the while loop of Set::drop, entered with head = Some:
\* next is taken out of head, head becomes next.link, which is moved out of
\* the node, and next is dropped at the end of the body.
DropBody(h, head) ==
  LET next == head[1]
      moved == [h EXCEPT ![next].link = None]
      d == DropLink(moved, Some(next)) IN
  [heap |-> d.heap, head |-> h[next].link, depth |-> d.depth]

\* The Sets go out of scope in reverse order of declaration, set2 before
\* set1.  drop: let mut head = self.head.take();
DropBegin ==
  /\ hdrop = NoDrop
  /\ \E n \in {1, 2} :
       /\ Side(n) # None
       /\ n = 1 => set2 = None
       /\ hdrop' = [side |-> n, head |-> Side(n)[1].head, iters |-> 0,
                    depth |-> 0, n0 |-> Len(HeapChain(heap, Side(n)[1].head))]
       /\ IF n = 1 THEN set1' = Some([set1[1] EXCEPT !.head = None]) /\ UNCHANGED set2
          ELSE set2' = Some([set2[1] EXCEPT !.head = None]) /\ UNCHANGED set1
  /\ UNCHANGED <<heap, hlast, offHeap>>

\* while let Some(next) = head.take() { head = next.link; }
DropStep ==
  /\ hdrop # NoDrop
  /\ hdrop.head # None
  /\ LET b == DropBody(heap, hdrop.head) IN
     /\ heap' = b.heap
     /\ hdrop' = [hdrop EXCEPT !.head = b.head,
                               !.iters = hdrop.iters + 1,
                               !.depth = IF b.depth > hdrop.depth THEN b.depth
                                         ELSE hdrop.depth]
  /\ UNCHANGED <<set1, set2, hlast, offHeap>>

\* The loop has ended and the Set is gone.
DropEnd ==
  /\ hdrop # NoDrop
  /\ hdrop.head = None
  /\ hlast' = [op |-> "drop", side |-> hdrop.side,
               other |-> Abs(heap, Side(3 - hdrop.side)), nth |-> hlast.nth,
               iters |-> hdrop.iters, depth |-> hdrop.depth, n0 |-> hdrop.n0]
  /\ IF hdrop.side = 1 THEN set1' = None /\ UNCHANGED set2
     ELSE set2' = None /\ UNCHANGED set1
  /\ hdrop' = NoDrop
  /\ UNCHANGED <<heap, offHeap>>

HeapNext ==
  \/ TestClone
  \/ MutInsert
  \/ MutReplace
  \/ MutRemove
  \/ MutDrainFilter
  \/ DropBegin
  \/ DropStep
  \/ DropEnd

HeapSpec == HeapInit /\ [][HeapNext]_vars

(***************************************************************************)
(* C21.  clone() produces an independent deep copy: right after cloning,   *)
(* the clone equals the source and has the same len and the same ascending *)
(* element sequence; no node is owned by both; and any later insert,       *)
(* replace, remove or drain_filter on one of the two leaves the other's    *)
(* elements and len as they were.                                          *)
(***************************************************************************)
C21_CloneIndependent ==
  /\ (hlast.op = "clone" /\ hdrop = NoDrop) =>
       /\ Abs(heap, set2) = Abs(heap, set1)
       /\ Abs(heap, set2)[1] = SetClone(Abs(heap, set1)[1])
       /\ SetEq(Abs(heap, set2)[1], Abs(heap, set1)[1])
       /\ StrictlyIncreasing(Abs(heap, set2)[1].head)
       /\ set2[1].len = Len(HeapChain(heap, set2[1].head))
  /\ hdrop = NoDrop => Owned(heap, set1) \cap Owned(heap, set2) = {}
  /\ (hlast.op \in {"insert", "replace", "remove", "drain_filter"}
        /\ hdrop = NoDrop) =>
       Abs(heap, Side(3 - hlast.side)) = hlast.other

\* The second operation after the clone has removed an element from the
\* clone, whose source still has its two or more elements.
C21_Witness ==
  /\ hlast.op = "remove"
  /\ hlast.side = 2
  /\ hlast.nth = 2
  /\ hlast.other # None
  /\ Len(hlast.other[1].head) >= 2
  /\ Abs(heap, set2) # Abs(heap, set1)
  /\ Len(HeapChain(heap, set2[1].head)) < Len(HeapChain(heap, set1[1].head))

(***************************************************************************)
(* C22.  Destroying a Set of any length n is a loop that detaches one node *)
(* per iteration: each node is dropped only after its successor link has   *)
(* been moved out of it, so no drop recurses into a successor; the loop    *)
(* runs exactly n iterations and ends with an empty chain, every node of   *)
(* the Set freed and no other.                                             *)
(***************************************************************************)
C22_DropIterative ==
  /\ hdrop # NoDrop =>
       /\ hdrop.iters + Len(HeapChain(heap, hdrop.head)) = hdrop.n0
       /\ hdrop.depth <= 1
       /\ hdrop.iters >= 1 => hdrop.depth = 1
       /\ Side(hdrop.side)[1].head = None
       /\ DOMAIN heap =
            HeapNodes(heap, hdrop.head) \cup Owned(heap, Side(3 - hdrop.side))
  /\ hlast.op = "drop" =>
       /\ hlast.iters = hlast.n0
       /\ hlast.depth <= 1
       /\ Side(hlast.side) = None
       /\ hdrop = NoDrop => DOMAIN heap = Owned(heap, Side(3 - hlast.side))
       /\ hdrop = NoDrop => Abs(heap, Side(3 - hlast.side)) = hlast.other

\* A Set of three elements collected in descending order has been dropped
\* in three iterations.
C22_Witness ==
  /\ hlast.op = "drop"
  /\ hlast.n0 = 3
  /\ hlast.iters = 3
  /\ hlast.depth = 1
  /\ hlast.side = 1
  /\ set2 = None
  /\ heap = <<>>

(***************************************************************************)
(* The binary search tree map.  A Link is None or Some(node), and a node   *)
(* is [key, value, left, right] with left and right Links.  A key is      *)
(* [key, tag]: K's order looks at key only.  A reference into the tree     *)
(* (the `ptr` and `cur` of the iterative variants) is the path of "left"   *)
(* and "right" fields that leads from the root Link to it.                 *)
(***************************************************************************)
BstKeyIds == {0, 1, 2}

BstKeys == [key : BstKeyIds, tag : Tags]

BstValues == {0, 1}

BstNodeNew(key, value) ==
  [key |-> key, value |-> value, left |-> None, right |-> None]

BstNew == None

BstIsEmpty(t) == t = None

RECURSIVE LenRec(_)
LenRec(ptr) ==
  IF ptr # None THEN 1 + LenRec(ptr[1].left) + LenRec(ptr[1].right)
  ELSE 0

\* Faulty loop of len_iter: the right Link is not pushed.
RECURSIVE LenIterLoopLeftOnly(_, _)
LenIterLoopLeftOnly(stack, result) ==
  IF stack = <<>> THEN result
  ELSE LET each == stack[Len(stack)]
           rest == SubSeq(stack, 1, Len(stack) - 1) IN
       IF each # None
       THEN LenIterLoopLeftOnly(rest \o <<each[1].left>>, result + 1)
       ELSE LenIterLoopLeftOnly(rest, result)

\* The while loop of len_iter: pop a Link; if it owns a node, count it and
\* push its two Links.
RECURSIVE LenIterLoop(_, _)
LenIterLoop(stack, result) ==
  IF stack = <<>> THEN result
  ELSE LET each == stack[Len(stack)]
           rest == SubSeq(stack, 1, Len(stack) - 1) IN
       IF each # None
       THEN LenIterLoop(rest \o <<each[1].left, each[1].right>>, result + 1)
       ELSE LenIterLoop(rest, result)

LenIter(ptr) == LenIterLoop(<<ptr>>, 0)

BstLen(t) == LenIter(t)

RECURSIVE FindRec(_, _)
FindRec(ptr, key) ==
  IF ptr # None
  THEN LET n == ptr[1]
           ord == Cmp(key, n.key) IN
       IF ord = "Less" THEN FindRec(n.left, key)
       ELSE IF ord = "Greater" THEN FindRec(n.right, key)
       ELSE Some(n.value)
  ELSE None

\* The while loop of find_iter; ptr is reassigned until it is None or the
\* keys compare Equal.
RECURSIVE FindIterLoop(_, _)
FindIterLoop(ptr, key) ==
  IF ptr = None THEN None
  ELSE LET n == ptr[1]
           ord == Cmp(key, n.key) IN
       IF ord = "Less" THEN FindIterLoop(n.left, key)
       ELSE IF ord = "Greater" THEN FindIterLoop(n.right, key)
       ELSE Some(n.value)

FindIter(ptr, key) == FindIterLoop(ptr, key)

BstFind(t, key) == FindIter(t, key)

\* The Link a path leads to, and the tree with that Link overwritten.
RECURSIVE ReadAt(_, _)
ReadAt(root, path) ==
  IF path = <<>> THEN root
  ELSE IF Head(path) = "left" THEN ReadAt(root[1].left, Tail(path))
  ELSE ReadAt(root[1].right, Tail(path))

RECURSIVE WriteAt(_, _, _)
WriteAt(root, path, link) ==
  IF path = <<>> THEN link
  ELSE IF Head(path) = "left"
       THEN Some([root[1] EXCEPT !.left = WriteAt(root[1].left, Tail(path), link)])
  ELSE Some([root[1] EXCEPT !.right = WriteAt(root[1].right, Tail(path), link)])

\* find_mut returns Option<&mut V>: here the path to the node whose value
\* the reference is to.
RECURSIVE FindMutRec(_, _, _)
FindMutRec(root, path, key) ==
  IF ReadAt(root, path) # None
  THEN LET n == ReadAt(root, path)[1]
           ord == Cmp(key, n.key) IN
       IF ord = "Less" THEN FindMutRec(root, Append(path, "left"), key)
       ELSE IF ord = "Greater" THEN FindMutRec(root, Append(path, "right"), key)
       ELSE Some(path)
  ELSE None

\* The loop of find_mut_iter; cur is None or the Box at `path`.
RECURSIVE FindMutIterLoop(_, _, _)
FindMutIterLoop(root, path, key) ==
  LET cur == ReadAt(root, path) IN
  IF cur # None
  THEN LET ord == Cmp(key, cur[1].key) IN
       IF ord = "Less" THEN FindMutIterLoop(root, Append(path, "left"), key)
       ELSE IF ord = "Greater"
            THEN FindMutIterLoop(root, Append(path, "right"), key)
       ELSE Some(path)
  ELSE None

FindMutIter(root, key) == FindMutIterLoop(root, <<>>, key)

BstFindMut(t, key) == FindMutIter(t, key)

\* *reference = value, for the reference find_mut returned.
WriteValue(root, path, value) ==
  WriteAt(root, path, Some([ReadAt(root, path)[1] EXCEPT !.value = value]))

\* [tree, ret]: the Link after the call and what the call returned.
RECURSIVE InsertRec(_, _, _)
InsertRec(ptr, key, value) ==
  IF ptr = None
  THEN [tree |-> Some(BstNodeNew(key, value)), ret |-> None]
  ELSE LET node == ptr[1]
           ord == Cmp(key, node.key) IN
       IF ord = "Less"
       THEN LET r == InsertRec(node.left, key, value) IN
            [tree |-> Some([node EXCEPT !.left = r.tree]), ret |-> r.ret]
       ELSE IF ord = "Greater"
       THEN LET r == InsertRec(node.right, key, value) IN
            [tree |-> Some([node EXCEPT !.right = r.tree]), ret |-> r.ret]
       ELSE [tree |-> Some([node EXCEPT !.key = key, !.value = value]),
             ret |-> Some(<<node.key, node.value>>)]

\* Faulty loop of insert_iter: on Equal only the value is replaced.
RECURSIVE InsertIterLoopKeepsKey(_, _, _, _)
InsertIterLoopKeepsKey(root, ptr, key, value) ==
  IF ReadAt(root, ptr) # None
  THEN LET node == ReadAt(root, ptr)[1]
           ord == Cmp(key, node.key) IN
       IF ord = "Less"
       THEN InsertIterLoopKeepsKey(root, Append(ptr, "left"), key, value)
       ELSE IF ord = "Greater"
       THEN InsertIterLoopKeepsKey(root, Append(ptr, "right"), key, value)
       ELSE [tree |-> WriteAt(root, ptr, Some([node EXCEPT !.value = value])),
             ret |-> Some(<<node.key, node.value>>)]
  ELSE [tree |-> WriteAt(root, ptr, Some(BstNodeNew(key, value))), ret |-> None]

\* The while loop of insert_iter and the store after it.
RECURSIVE InsertIterLoop(_, _, _, _)
InsertIterLoop(root, ptr, key, value) ==
  IF ReadAt(root, ptr) # None
  THEN LET node == ReadAt(root, ptr)[1]
           ord == Cmp(key, node.key) IN
       IF ord = "Less" THEN InsertIterLoop(root, Append(ptr, "left"), key, value)
       ELSE IF ord = "Greater"
       THEN InsertIterLoop(root, Append(ptr, "right"), key, value)
       ELSE [tree |-> WriteAt(root, ptr,
                              Some([node EXCEPT !.key = key, !.value = value])),
             ret |-> Some(<<node.key, node.value>>)]
  ELSE [tree |-> WriteAt(root, ptr, Some(BstNodeNew(key, value))), ret |-> None]

InsertIter(root, key, value) == InsertIterLoop(root, <<>>, key, value)

BstInsert(t, key, value) == InsertIter(t, key, value)

\* The map kept beside the tree: for each key id, the key and the value of
\* the most recent insert, with the value overwritten by a later write
\* through find_mut.
NoneYet == [k \in BstKeyIds |-> None]

\* No call is under way.
NoBstCall ==
  [op |-> "none", key |-> None, value |-> None, ret |-> None,
   pre |-> BstNew, was |-> NoneYet]

\* let mut bst = BST::new();
BstInit ==
  /\ bst = BstNew
  /\ recent = NoneYet
  /\ blast = NoBstCall
  /\ ListIdle
  /\ HeapIdle
  /\ CursorIdle
  /\ VecIdle

Called(op, key, value, ret) ==
  blast' = [op |-> op, key |-> key, value |-> value, ret |-> ret,
            pre |-> bst, was |-> recent]

\* bst.insert(key, value)
CallInsert ==
  /\ blast.op = "none"
  /\ \E key \in BstKeys, value \in BstValues :
       LET r == BstInsert(bst, key, value) IN
       /\ bst' = r.tree
       /\ recent' = [recent EXCEPT ![key.key] = Some([key |-> key, value |-> value])]
       /\ Called("insert", Some(key), Some(value), r.ret)
  /\ UNCHANGED offBst

\* Node::insert_rec(&mut bst.0, key, value)
CallInsertRec ==
  /\ blast.op = "none"
  /\ \E key \in BstKeys, value \in BstValues :
       LET r == InsertRec(bst, key, value) IN
       /\ bst' = r.tree
       /\ recent' = [recent EXCEPT ![key.key] = Some([key |-> key, value |-> value])]
       /\ Called("insert_rec", Some(key), Some(value), r.ret)
  /\ UNCHANGED offBst

\* bst.find(&key)
CallFind ==
  /\ blast.op = "none"
  /\ \E key \in BstKeys : Called("find", Some(key), None, BstFind(bst, key))
  /\ UNCHANGED <<bst, recent, offBst>>

\* if let Some(v) = bst.find_mut(&key) { *v = value }
CallFindMut ==
  /\ blast.op = "none"
  /\ \E key \in BstKeys, value \in BstValues :
       LET r == BstFindMut(bst, key) IN
       /\ Called("find_mut", Some(key), Some(value), r)
       /\ IF r = None THEN UNCHANGED <<bst, recent>>
          ELSE /\ bst' = WriteValue(bst, r[1], value)
               /\ recent' = [recent EXCEPT ![key.key] =
                               Some([recent[key.key][1] EXCEPT !.value = value])]
  /\ UNCHANGED offBst

\* bst.len()
CallLen ==
  /\ blast.op = "none"
  /\ Called("len", None, None, BstLen(bst))
  /\ UNCHANGED <<bst, recent, offBst>>

\* bst.is_empty()
CallIsEmpty ==
  /\ blast.op = "none"
  /\ Called("is_empty", None, None, BstIsEmpty(bst))
  /\ UNCHANGED <<bst, recent, offBst>>

\* The call has returned; the next statement of the caller runs.
BstReturn ==
  /\ blast.op # "none"
  /\ blast' = NoBstCall
  /\ UNCHANGED <<bst, recent, offBst>>

BstNext ==
  \/ CallInsert
  \/ CallInsertRec
  \/ CallFind
  \/ CallFindMut
  \/ CallLen
  \/ CallIsEmpty
  \/ BstReturn

BstSpec == BstInit /\ [][BstNext]_vars

\* The nodes of a tree, and its (key, value) pairs.
RECURSIVE TreeNodes(_)
TreeNodes(ptr) ==
  IF ptr = None THEN {}
  ELSE {ptr[1]} \cup TreeNodes(ptr[1].left) \cup TreeNodes(ptr[1].right)

Entries(ptr) == {[key |-> n.key, value |-> n.value] : n \in TreeNodes(ptr)}

\* The tree without what its nodes hold.
RECURSIVE Shape(_)
Shape(ptr) ==
  IF ptr = None THEN None
  ELSE Some([left |-> Shape(ptr[1].left), right |-> Shape(ptr[1].right)])

Inserted(r) == {k \in BstKeyIds : r[k] # None}

(***************************************************************************)
(* C23.  After any sequence of inserts, find(k) returns the value of the   *)
(* most recent insert for k, or the value written through find_mut, and    *)
(* None for a key never inserted; insert returns None for a new key and    *)
(* Some((old key, old value)) for an existing key, replacing both in       *)
(* place; len() is the number of distinct keys inserted and is_empty()     *)
(* holds iff no insert has happened.                                       *)
(***************************************************************************)
C23_BstMap ==
  /\ \A key \in BstKeys :
       BstFind(bst, key) =
         IF recent[key.key] = None THEN None
         ELSE Some(recent[key.key][1].value)
  /\ Entries(bst) = {recent[k][1] : k \in Inserted(recent)}
  /\ BstLen(bst) = Cardinality(Inserted(recent))
  /\ BstIsEmpty(bst) <=> Inserted(recent) = {}
  /\ blast.op = "insert" =>
       LET k == blast.key[1].key IN
       IF blast.was[k] = None
       THEN /\ blast.ret = None
            /\ BstLen(bst) = BstLen(blast.pre) + 1
       ELSE /\ blast.ret = Some(<<blast.was[k][1].key, blast.was[k][1].value>>)
            /\ Shape(bst) = Shape(blast.pre)
            /\ BstLen(bst) = BstLen(blast.pre)
  /\ blast.op = "find" =>
       blast.ret = IF recent[blast.key[1].key] = None THEN None
                   ELSE Some(recent[blast.key[1].key][1].value)
  /\ blast.op = "len" => blast.ret = Cardinality(Inserted(recent))
  /\ blast.op = "is_empty" => (blast.ret <=> Inserted(recent) = {})

\* An insert for an existing key, given as a different key object, has
\* returned the old key and the old value in a tree of three nodes.
C23_Witness ==
  /\ blast.op = "insert"
  /\ blast.ret # None
  /\ blast.ret[1][1] # blast.key[1]
  /\ blast.ret[1][2] # blast.value[1]
  /\ BstLen(bst) = 3
  /\ blast.pre # None
  /\ blast.pre[1].key.key # blast.key[1].key

\* Search-tree order: every key in a node's left subtree is smaller than
\* the node's, every key in its right subtree larger.
RECURSIVE Ordered(_)
Ordered(ptr) ==
  IF ptr = None THEN TRUE
  ELSE /\ \A n \in TreeNodes(ptr[1].left) : Cmp(n.key, ptr[1].key) = "Less"
       /\ \A n \in TreeNodes(ptr[1].right) : Cmp(n.key, ptr[1].key) = "Greater"
       /\ Ordered(ptr[1].left)
       /\ Ordered(ptr[1].right)

(***************************************************************************)
(* C27.  The iterative and recursive variants agree on every tree and      *)
(* every key: find_iter returns what find_rec returns, insert_iter gives   *)
(* the same tree and the same return value as insert_rec, len_iter equals  *)
(* len_rec; and every insert preserves the search-tree order.              *)
(***************************************************************************)
C27_VariantsAgree ==
  /\ \A key \in BstKeys : FindIter(bst, key) = FindRec(bst, key)
  /\ \A key \in BstKeys : FindMutIter(bst, key) = FindMutRec(bst, <<>>, key)
  /\ \A key \in BstKeys, value \in BstValues :
       InsertIter(bst, key, value) = InsertRec(bst, key, value)
  /\ LenIter(bst) = LenRec(bst)
  /\ Ordered(bst)

\* A tree of three nodes, the root with two children, the last of them put
\* in by the latest insert.
C27_Witness ==
  /\ blast.op \in {"insert", "insert_rec"}
  /\ blast.ret = None
  /\ LenRec(bst) = 3
  /\ bst[1].left # None
  /\ bst[1].right # None

(***************************************************************************)
(* The cursor on its own: a CursorMut over any Set, driven by any sequence *)
(* of its methods, as the code inside the module is free to drive it.      *)
(***************************************************************************)
CursorInit ==
  /\ \E s \in Sets :
       /\ cursor = CursorNew(s)
       /\ clast = [op |-> "new", pre |-> CursorNew(s), ret |-> None]
  /\ ListIdle
  /\ HeapIdle
  /\ BstIdle
  /\ VecIdle

\* cur.advance()
DoAdvance ==
  /\ ~cursor.panic
  /\ cursor' = CursorAdvance(cursor)
  /\ clast' = [op |-> "advance", pre |-> cursor, ret |-> None]
  /\ UNCHANGED offCursor

\* cur.data()
DoData ==
  /\ ~cursor.panic
  /\ clast' = [op |-> "data", pre |-> cursor, ret |-> CursorData(cursor)]
  /\ UNCHANGED <<cursor, offCursor>>

\* cur.remove()
DoRemove ==
  /\ ~cursor.panic
  /\ LET r == CursorRemove(cursor) IN
     /\ cursor' = r.cur
     /\ clast' = [op |-> "remove", pre |-> cursor, ret |-> r.ret]
  /\ UNCHANGED offCursor

\* cur.insert(data), with the data the callers give it: what keeps the
\* chain in order.
DoInsert ==
  /\ ~cursor.panic
  /\ \E data \in Elem :
       /\ StrictlyIncreasing(CursorInsert(cursor, data).head)
       /\ cursor' = CursorInsert(cursor, data)
       /\ clast' = [op |-> "insert", pre |-> cursor, ret |-> Some(data)]
  /\ UNCHANGED offCursor

CursorNext ==
  \/ DoAdvance
  \/ DoData
  \/ DoRemove
  \/ DoInsert

CursorSpec == CursorInit /\ [][CursorNext]_vars

\* The cursor refers to a Link that owns a node; to the empty Link at the
\* end of the chain.
C25_AtNode(c) == c.link # None /\ c.link[1] < Len(c.head)

C25_AtEnd(c) == c.link # None /\ c.link[1] = Len(c.head)

(***************************************************************************)
(* C25 as stated.  advance moves the cursor from the current Link to the   *)
(* successor Link of the node that Link owns, without changing the chain   *)
(* or len; when the cursor is already at the end of the chain, advance is  *)
(* a no-op that leaves the cursor positioned at the end of the chain, with *)
(* data() returning none.                                                  *)
(***************************************************************************)
C25_AdvanceAtEndStays ==
  clast.op = "advance" =>
    /\ cursor.head = clast.pre.head
    /\ cursor.len = clast.pre.len
    /\ C25_AtNode(clast.pre) => cursor.link = Some(clast.pre.link[1] + 1)
    /\ C25_AtEnd(clast.pre) =>
         /\ cursor = clast.pre
         /\ C25_AtEnd(cursor)
         /\ CursorData(cursor) = None

(***************************************************************************)
(* C25, amended.  advance moves the cursor from the current Link to the    *)
(* successor Link of the node that Link owns, without changing the chain   *)
(* or len; when the cursor is already at the end of the chain, advance     *)
(* leaves the chain and len alone but the cursor holds no Link afterwards: *)
(* data() returns none, insert would abort, and a further advance changes  *)
(* nothing.                                                                *)
(***************************************************************************)
C25_AdvanceAtEndEmpties ==
  clast.op = "advance" =>
    /\ cursor.head = clast.pre.head
    /\ cursor.len = clast.pre.len
    /\ C25_AtNode(clast.pre) =>
         /\ cursor.link = Some(clast.pre.link[1] + 1)
         /\ CursorData(clast.pre) = Some(clast.pre.head[clast.pre.link[1] + 1])
    /\ C25_AtEnd(clast.pre) =>
         /\ cursor.link = None
         /\ CursorData(clast.pre) = None
         /\ CursorData(cursor) = None
         /\ \A data \in Elem : CursorInsert(cursor, data).panic
         /\ \A data \in Elem : ~CursorInsert(clast.pre, data).panic
    /\ clast.pre.link = None => cursor = clast.pre
    /\ cursor.link = None => CursorAdvance(cursor) = cursor

\* advance was called at the end of a chain of two or more nodes.
C25_Witness ==
  /\ clast.op = "advance"
  /\ C25_AtEnd(clast.pre)
  /\ Len(clast.pre.head) >= 2
  /\ cursor.link = None

(***************************************************************************)
(* Vec and its consuming iterator.  A Vec is its items, front to back, and *)
(* its capacity; a VecIntoIter wraps a Vec.                                *)
(***************************************************************************)
VecWithCapacity(capacity) == [items |-> <<>>, cap |-> capacity]

\* Vec::push; a full Vec grows to hold the item.
VecPush(v, item) ==
  [items |-> Append(v.items, item),
   cap |-> IF Len(v.items) < v.cap THEN v.cap ELSE Len(v.items) + 1]

\* Vec::pop: [vec, ret]
VecPop(v) ==
  IF v.items = <<>> THEN [vec |-> v, ret |-> None]
  ELSE [vec |-> [v EXCEPT !.items = SubSeq(v.items, 1, Len(v.items) - 1)],
        ret |-> Some(v.items[Len(v.items)])]

Min(a, b) == IF a <= b THEN a ELSE b

\* Faulty into_iter8or: the Vec is wrapped as it is.
VecIntoIter8orNoReverse(self) == self

\* while let Some(item) = self.pop() { result.0.push(item); }
RECURSIVE IntoIter8orLoop(_, _)
IntoIter8orLoop(self, result) ==
  LET p == VecPop(self) IN
  IF p.ret = None THEN result
  ELSE IntoIter8orLoop(p.vec, VecPush(result, p.ret[1]))

\* IntoIter8or for Vec: the VecIntoIter, which is the Vec it wraps.
VecIntoIter8or(self) ==
  IntoIter8orLoop(self, VecWithCapacity(Len(self.items)))

\* VecIntoIter::next: [it, ret]
VecIntoIterNext(it) ==
  LET p == VecPop(it) IN [it |-> p.vec, ret |-> p.ret]

VecIntoIterSizeHint(it) == <<Len(it.items), Some(Len(it.items))>>

\* while let Some(item) = iter.next() { result.push(item) }
RECURSIVE FromIterLoop(_, _)
FromIterLoop(it, result) ==
  LET n == VecIntoIterNext(it) IN
  IF n.ret = None THEN result
  ELSE FromIterLoop(n.it, VecPush(result, n.ret[1]))

\* FromIter8or for Vec, handed a Vec: from_iter calls into_iter8or on it.
VecFromIter(pre_iter) ==
  LET it == VecIntoIter8or(pre_iter)
      hint == VecIntoIterSizeHint(it)
      lower == hint[1]
      upper_option == hint[2]
      capacity == IF upper_option # None THEN Min(2 * lower, upper_option[1])
                  ELSE lower IN
  FromIterLoop(it, VecWithCapacity(capacity))

\* let v = vec![..];
VecInit ==
  /\ \E items \in Vecs :
       /\ vector = Some([items |-> items, cap |-> Len(items)])
       /\ vlast = [op |-> "vec", orig |-> items, ret |-> <<>>, nones |-> 0]
  /\ viter = None
  /\ ListIdle
  /\ HeapIdle
  /\ BstIdle
  /\ CursorIdle

\* let mut it = v.into_iter8or();  The Vec is moved into the call.
CallIntoIter8or ==
  /\ vlast.op = "vec"
  /\ viter' = Some(VecIntoIter8or(vector[1]))
  /\ vector' = None
  /\ vlast' = [vlast EXCEPT !.op = "into_iter8or"]
  /\ UNCHANGED offVec

\* it.next(); vlast.ret is what the iterator has yielded so far.
CallNext ==
  /\ vlast.op \in {"into_iter8or", "next"}
  /\ vlast.nones <= MaxIdleNext
  /\ LET n == VecIntoIterNext(viter[1]) IN
     /\ viter' = Some(n.it)
     /\ vlast' = [vlast EXCEPT !.op = "next",
                               !.ret = vlast.ret \o n.ret,
                               !.nones = IF n.ret = None THEN vlast.nones + 1
                                         ELSE vlast.nones]
  /\ UNCHANGED <<vector, offVec>>

\* let w = Vec::from_iter(v);
CallFromIter ==
  /\ vlast.op = "vec"
  /\ vlast' = [vlast EXCEPT !.op = "from_iter", !.ret = VecFromIter(vector[1])]
  /\ vector' = None
  /\ UNCHANGED <<viter, offVec>>

VecNext ==
  \/ CallIntoIter8or
  \/ CallNext
  \/ CallFromIter

VecSpec == VecInit /\ [][VecNext]_vars

RECURSIVE Reverse(_)
Reverse(seq) ==
  IF seq = <<>> THEN <<>> ELSE Append(Reverse(Tail(seq)), Head(seq))

(***************************************************************************)
(* C28.  Converting a Vec with into_iter8or and iterating yields its       *)
(* elements in the original front-to-back order (the internal copy is      *)
(* stored reversed and popped from the end), with size_hint exactly the    *)
(* number of elements not yet yielded; collecting with from_iter gives     *)
(* back a Vec equal to the original.                                       *)
(***************************************************************************)
C28_VecRoundTrip ==
  /\ vlast.op \in {"into_iter8or", "next"} =>
       LET n == Len(vlast.orig)
           k == Len(vlast.ret) IN
       /\ vlast.ret = SubSeq(vlast.orig, 1, k)
       /\ viter[1].items = Reverse(SubSeq(vlast.orig, k + 1, n))
       /\ VecIntoIterSizeHint(viter[1]) = <<n - k, Some(n - k)>>
       /\ vlast.nones >= 1 => k = n
       /\ k = n => VecIntoIterNext(viter[1]).ret = None
  /\ vlast.op = "from_iter" => vlast.ret.items = vlast.orig

\* A Vec of three items, not all alike, has been yielded front to back and
\* next() has then returned None.
C28_Witness ==
  /\ vlast.op = "next"
  /\ Len(vlast.orig) = 3
  /\ vlast.orig[1] # vlast.orig[3]
  /\ Len(vlast.ret) = 3
  /\ vlast.nones >= 1

====
